---- MODULE Spec2Model ----
(***************************************************************************)
(* CentralizadorBackEnd (CogniCare): an Express REST API.  One request at  *)
(* a time is followed through the middleware chain of its route, its       *)
(* controller, the service and data-access functions the controller calls, *)
(* the statement sent to the connection pool, and the global error handler.*)
(***************************************************************************)
EXTENDS Integers, Sequences, FiniteSets, TLC

VARIABLES
  pc,      \* "idle" | "chain" | "error" | "done": where the request stands
  route,   \* index in RouteTable of the route being served (0 when idle)
  idx,     \* position in the route's chain of the next stage to run
  req,     \* the request: credentials, path parameter, body, and what the
           \* middlewares attached to it (user, validation errors)
  trace,   \* the stages that have run for this request, in order
  calls,   \* the service / data-access / pool calls made for this request
  err,     \* the error handed to next(err), NoError when none
  res,     \* the response sent, NoRes when none yet
  db,      \* the database: sessions, assignments (state kept by the DB)
  served,  \* number of requests completed (bounded by MaxRequests)
  nodeEnv  \* process.env.NODE_ENV

vars == <<pc, route, idx, req, trace, calls, err, res, db, served, nodeEnv>>

----------------------------------------------------------------------------
(* Bounds *)

MaxRequests == 2

----------------------------------------------------------------------------
(* Stage names of a route's chain *)

VT   == "verificarToken"
ADM  == "isAdmin"
ENT  == "isEntrenador"
VUUID == "validarParametroUUID"
VBODY == "validaciones"
MRV  == "manejarResultadosValidacion"
CTRL == "controller"

R(verb, path, chain, ctrl) ==
  [verb |-> verb, path |-> path, chain |-> chain, ctrl |-> ctrl]

----------------------------------------------------------------------------
(* Route tables, one per router, mounted as in the application entry point *)

adminRoutes == <<
  R("POST", "/api/admin/entrenadores", <<VT, ADM, VBODY, MRV, CTRL>>, "registrarEntrenador"),
  R("GET",  "/api/admin/entrenadores", <<VT, ADM, CTRL>>, "listarTodosLosEntrenadores"),
  R("PUT",  "/api/admin/entrenadores/:entrenadorID", <<VT, ADM, VBODY, MRV, CTRL>>, "actualizarInformacionEntrenador"),
  R("PUT",  "/api/admin/entrenadores/:entrenadorID/desactivar", <<VT, ADM, VBODY, MRV, CTRL>>, "desactivarEntrenador"),
  R("GET",  "/api/admin/informes/entrenamientos", <<VT, ADM, CTRL>>, "obtenerListaEntrenamientosAdmin"),
  R("GET",  "/api/admin/informes/entrenamientos/:entrenamientoId", <<VT, ADM, VUUID, MRV, CTRL>>, "obtenerDetalleInformeAdmin") >>

authRoutes == <<
  R("POST", "/api/login/admin", <<CTRL>>, "loginAdmin"),
  R("POST", "/api/login/entrenador", <<CTRL>>, "loginEntrenador") >>

tipoDocumentoRoutes == <<
  R("GET", "/api/tipos-documento", <<VT, CTRL>>, "obtenerTiposDocumento") >>

facultadRoutes == <<
  R("GET", "/api/facultades", <<VT, CTRL>>, "obtenerFacultades") >>

\* the session router with the parameter validation of POST /:idSesion/iniciar
\* declared before isEntrenador
sesionRoutes_validaAntes == <<
  R("POST", "/api/sesiones/crear", <<VT, ENT, CTRL>>, "crearSesion"),
  R("POST", "/api/sesiones/:idSesion/iniciar", <<VT, VUUID, MRV, ENT, CTRL>>, "iniciarSesion") >>

sesionRoutes == <<
  R("POST", "/api/sesiones/crear", <<VT, ENT, CTRL>>, "crearSesion"),
  R("POST", "/api/sesiones/:idSesion/iniciar", <<VT, ENT, VUUID, MRV, CTRL>>, "iniciarSesion") >>

entrenamientoCognitivoRoutes == <<
  R("GET",   "/api/entrenamientos-cognitivos/facultad/:facultadId/estudiantes", <<VT, CTRL>>, "obtenerEstudiantesPorFacultadController"),
  R("POST",  "/api/entrenamientos-cognitivos/estudiante/detalle-entrenamiento", <<VT, CTRL>>, "obtenerEntrenamientoEstudiantePorDocumentoController"),
  R("POST",  "/api/entrenamientos-cognitivos/crear", <<VT, CTRL>>, "crearNuevoEntrenamientoCognitivoController"),
  R("POST",  "/api/entrenamientos-cognitivos/asignacion", <<VT, CTRL>>, "registrarEntrenamientoAsignacionController"),
  R("GET",   "/api/entrenamientos-cognitivos/progreso/:asignacionId", <<VT, ENT, VUUID, MRV, CTRL>>, "obtenerProgresoVariableController"),
  R("PATCH", "/api/entrenamientos-cognitivos/estudiante/:siglaTipoDocEstudiante/:numeroDocEstudiante", <<VT, ENT, CTRL>>, "modificarEntrenamientoCognitivoController"),
  R("PUT",   "/api/entrenamientos-cognitivos/sesiones/:idSesion/observacion", <<VT, ENT, VUUID, VBODY, MRV, CTRL>>, "actualizarObservacionSesionController"),
  R("PUT",   "/api/entrenamientos-cognitivos/sesiones/:idSesion/finalizar", <<VT, ENT, VUUID, VBODY, MRV, CTRL>>, "finalizarSesionController"),
  R("PUT",   "/api/entrenamientos-cognitivos/asignaciones/:idAsignacion/finalizar", <<VT, ENT, VUUID, MRV, CTRL>>, "finalizarAsignacionVariableController") >>

\* the student router with PATCH /:id/genero declared without isEntrenador
estudianteRoutes_sinRol == <<
  R("POST",  "/api/estudiantes", <<VT, CTRL>>, "registrarNuevoEstudianteController"),
  R("GET",   "/api/estudiantes/:siglaTipoDoc/:numeroDoc", <<VT, CTRL>>, "obtenerEstudianteController"),
  R("PUT",   "/api/estudiantes/:siglaTipoDoc/:numeroDoc", <<VT, CTRL>>, "modificarEstudianteController"),
  R("PATCH", "/api/estudiantes/:id/genero", <<VT, VUUID, VBODY, MRV, CTRL>>, "actualizarGeneroEstudiante") >>

estudianteRoutes == <<
  R("POST",  "/api/estudiantes", <<VT, CTRL>>, "registrarNuevoEstudianteController"),
  R("GET",   "/api/estudiantes/:siglaTipoDoc/:numeroDoc", <<VT, CTRL>>, "obtenerEstudianteController"),
  R("PUT",   "/api/estudiantes/:siglaTipoDoc/:numeroDoc", <<VT, CTRL>>, "modificarEstudianteController"),
  R("PATCH", "/api/estudiantes/:id/genero", <<VT, ENT, VUUID, VBODY, MRV, CTRL>>, "actualizarGeneroEstudiante") >>

utilidadesRoutes == <<
  R("GET", "/api/utilidades/generos", <<VT, CTRL>>, "obtenerGenerosController"),
  R("GET", "/api/utilidades/tipos-documento", <<VT, CTRL>>, "obtenerTiposDocumentoController"),
  R("GET", "/api/utilidades/programas", <<VT, CTRL>>, "obtenerProgramasController"),
  R("GET", "/api/utilidades/tipos-variables-cognitivas", <<VT, CTRL>>, "obtenerTiposVariablesCognitivasController"),
  R("GET", "/api/utilidades/estudiantes/documento/:tipoDocumento/:numeroDocumento", <<VT, CTRL>>, "obtenerIdEstudiantePorDocumentoController") >>

\* the trainer router with POST /asignar-entrenamiento declared without
\* verificarToken
entrenadorRoutes_sinToken == <<
  R("GET",  "/api/entrenadores/facultad-entrenador/:correo", <<VT, CTRL>>, "obtenerFacultadesPorEmailController"),
  R("GET",  "/api/entrenadores/datosporcorreo/:correo", <<VT, CTRL>>, "obtenerDatosPorCorreoController"),
  R("GET",  "/api/entrenadores/informes", <<VT, ENT, CTRL>>, "obtenerListaEntrenamientosEntrenador"),
  R("GET",  "/api/entrenadores/informes/:entrenamientoId", <<VT, ENT, VUUID, MRV, CTRL>>, "obtenerDetalleInformeAdmin"),
  R("POST", "/api/entrenadores/asignar-entrenamiento", <<CTRL>>, "crearEntrenadorEntrenamientoController") >>

entrenadorRoutes == <<
  R("GET",  "/api/entrenadores/facultad-entrenador/:correo", <<VT, CTRL>>, "obtenerFacultadesPorEmailController"),
  R("GET",  "/api/entrenadores/datosporcorreo/:correo", <<VT, CTRL>>, "obtenerDatosPorCorreoController"),
  R("GET",  "/api/entrenadores/informes", <<VT, ENT, CTRL>>, "obtenerListaEntrenamientosEntrenador"),
  R("GET",  "/api/entrenadores/informes/:entrenamientoId", <<VT, ENT, VUUID, MRV, CTRL>>, "obtenerDetalleInformeAdmin"),
  R("POST", "/api/entrenadores/asignar-entrenamiento", <<VT, CTRL>>, "crearEntrenadorEntrenamientoController") >>

variablesCognitivasRoutes == <<
  R("PATCH", "/api/variables-cognitivas/abandonar", <<VT, CTRL>>, "abandonarVariableCognitiva"),
  R("PATCH", "/api/variables-cognitivas/reactivar", <<VT, CTRL>>, "reactivarVariableCognitiva"),
  R("GET",   "/api/variables-cognitivas/nombre/:nombre", <<VT, CTRL>>, "obtenerIdVariableCognitivaPorNombre") >>

\* app.use(...) mounts, in order
RouteTable ==
  authRoutes \o adminRoutes \o tipoDocumentoRoutes \o facultadRoutes \o
  entrenamientoCognitivoRoutes \o estudianteRoutes \o utilidadesRoutes \o
  entrenadorRoutes \o variablesCognitivasRoutes \o sesionRoutes

RouteIds == 1..Len(RouteTable)

RouteOf(i) == RouteTable[i]

----------------------------------------------------------------------------
(* Values *)

\* Path-parameter values: u1, u2 are well-formed UUIDs of rows that exist,
\* u9 is a well-formed UUID no row has, no-uuid is not a UUID.
Ids == {"u1", "u2", "u9", "no-uuid"}

\* UUID_REGEX.test / isValidUUID / validarParametroUUID on the values above
IsUUID(id) == id \in {"u1", "u2", "u9"}

Roles == {"admin", "entrenador"}
UserIds == {"t1", "t2"}
Bodies == {"completo", "incompleto"}

\* A message is the sequence of its words; the empty sequence is the
\* empty / missing message (both falsy in the source).
NoMsg == <<>>

\* Error objects: statusCode 0 and code "" stand for an absent property.
E(statusCode, code, message) ==
  [statusCode |-> statusCode, code |-> code, message |-> message, detail |-> <<>>]

NoError == E(0, "", NoMsg)

\* Responses: status 0 means nothing was sent yet.
Res(status, message, data, stack) ==
  [status |-> status, message |-> message, data |-> data, stack |-> stack]

NoRes == Res(0, NoMsg, <<>>, FALSE)

\* One entry of the call log
\* (for a statement: what was true of the data, whether rows or an error
\* came back, the rows, how many, and the error with its code)
Call(capa, fn) ==
  [capa |-> capa, fn |-> fn, caso |-> "", kind |-> "", nrows |-> 0, code |-> "",
   error |-> NoError, rows |-> <<>>]
PoolCall(fn, o) ==
  [capa |-> "pool", fn |-> fn, caso |-> o.caso, kind |-> o.kind,
   nrows |-> Len(o.rows), code |-> o.error.code, error |-> o.error, rows |-> o.rows]

\* a || b on messages
OrMsg(a, b) == IF a # NoMsg THEN a ELSE b

\* a || b on status codes
OrCode(a, b) == IF a # 0 THEN a ELSE b

----------------------------------------------------------------------------
(* utils/response.util.js *)

\* throwClientError(message, statusCode): the error it throws
throwClientError(message, statusCode) == E(statusCode, "", message)

\* sendSuccess(res, statusCode, message, data)
sendSuccess(statusCode, message, data) == Res(statusCode, message, data, FALSE)

\* sendError(res, statusCode, message)
sendError(statusCode, message) == Res(statusCode, message, <<>>, FALSE)

----------------------------------------------------------------------------
(* Results of the layers.  Every result carries the calls made to obtain  *)
(* it and the database as the calls left it.                              *)

\* a data-access or service function returned val
Ret(val, log, d) ==
  [threw |-> FALSE, val |-> val, error |-> NoError, log |-> log, db |-> d]

\* a data-access or service function threw error: the function's entry of
\* the log (the first) records it
Thr(error, log, d) ==
  [threw |-> TRUE, val |-> <<>>, error |-> error,
   log |-> IF log = <<>> THEN log
           ELSE <<[log[1] EXCEPT !.kind = "throw", !.code = error.code,
                                 !.error = error]>> \o Tail(log),
   db |-> d]

\* a controller sent the response r
Sent(r, log, d) ==
  [kind |-> "res", res |-> r, error |-> NoError, log |-> log, db |-> d]

\* a controller called next(error)
Next_(error, log, d) ==
  [kind |-> "next", res |-> NoRes, error |-> error, log |-> log, db |-> d]

\* a data-access function returned val, or threw error: as Ret and Thr, and
\* the function's entry of the log (the first) records how it ended
Returns(val, log, d) ==
  Ret(val, <<[log[1] EXCEPT !.kind = "return", !.nrows = Len(val)]>> \o Tail(log), d)

Throws(error, log, d) ==
  Thr(error, <<[log[1] EXCEPT !.kind = "throw", !.code = error.code,
                              !.error = error]>> \o Tail(log), d)

\* rows[0]: the first row, or nothing (undefined) when there is none
FirstRow(rows) == IF rows = <<>> THEN <<>> ELSE <<rows[1]>>

----------------------------------------------------------------------------
(* The database behind pool.query: the stored functions and views are     *)
(* outside the application.  Each statement has a set of possible         *)
(* outcomes: rows, or an error raised by the driver.  "caso" records what *)
(* was true of the data when the statement ran.                           *)

Rows(rows, caso, d) ==
  [kind |-> "rows", rows |-> rows, error |-> NoError, caso |-> caso, db |-> d]

Raise(code, message, caso, d) ==
  [kind |-> "error", rows |-> <<>>, error |-> E(0, code, message),
   caso |-> caso, db |-> d]

\* any statement can fail for reasons unrelated to the data
ConnectionLost(caso, d) ==
  Raise("08006", <<"connection", "failure">>, caso, d)

\* a text that is not a UUID passed where the statement expects a uuid
InvalidUUID(d) ==
  Raise("22P02", <<"invalid", "input", "syntax", "for", "type", "uuid">>,
        "uuid_invalido", d)

\* session lifecycle kept by the database
EstadosSesion == {"Por Iniciar", "En Progreso", "Finalizado"}

\* CC.IniciarSesionEntrenamientoUFT($1)
IniciarSesionEntrenamientoUFT(idSesion, d) ==
  IF ~IsUUID(idSesion) THEN {InvalidUUID(d)}
  ELSE IF idSesion \notin DOMAIN d.sesiones THEN
    { Rows(<<[exito |-> FALSE, mensaje |-> <<"Sesión", "no", "encontrada">>]>>, "no_existe", d),
      Rows(<<>>, "no_existe", d),
      Raise("P0001", <<"Sesión", "no", "encontrada">>, "no_existe", d),
      ConnectionLost("no_existe", d) }
  ELSE IF d.sesiones[idSesion] # "Por Iniciar" THEN
    { Rows(<<[exito |-> FALSE, mensaje |-> <<"La", "sesión", "ya", "fue", "iniciada">>]>>, "no_iniciable", d),
      Rows(<<[exito |-> FALSE, mensaje |-> NoMsg]>>, "no_iniciable", d),
      Raise("P0001", <<"La", "sesión", "ya", "fue", "iniciada">>, "no_iniciable", d),
      ConnectionLost("no_iniciable", d) }
  ELSE
    { Rows(<<[exito |-> TRUE, mensaje |-> <<"Sesión", "iniciada">>]>>, "ok",
           [d EXCEPT !.sesiones[idSesion] = "En Progreso"]),
      ConnectionLost("ok", d) }

----------------------------------------------------------------------------
(* models/estudiantesEntrenamientos.model.js (sessions) *)

\* iniciarSesionDB with a catch block that logs the error and returns nothing
iniciarSesionDB_sinRelanzar(idSesion, d) ==
  { LET log == <<Call("model", "iniciarSesionDB"),
                 PoolCall("IniciarSesionEntrenamientoUFT", o)>>
    IN IF o.kind = "error" THEN Returns(<<>>, log, o.db)
       ELSE Returns(FirstRow(o.rows), log, o.db)
    : o \in IniciarSesionEntrenamientoUFT(idSesion, d) }

iniciarSesionDB(idSesion, d) ==
  { LET log == <<Call("model", "iniciarSesionDB"),
                 PoolCall("IniciarSesionEntrenamientoUFT", o)>>
    IN IF o.kind = "error" THEN Throws(o.error, log, o.db)
       ELSE Returns(FirstRow(o.rows), log, o.db)
    : o \in IniciarSesionEntrenamientoUFT(idSesion, d) }

----------------------------------------------------------------------------
(* services/entrenamientoCognitivo.service.js (sessions) *)

\* a catch block that sets the status to 500 whatever the error carried
Default500_siempre(e) == [e EXCEPT !.statusCode = 500]

\* the catch block shared by the services that default the status to 500
Default500(e) == IF e.statusCode = 0 THEN [e EXCEPT !.statusCode = 500] ELSE e

iniciarSesion_service(idSesion, d) ==
  { LET log == <<Call("service", "iniciarSesion")>> \o m.log
    IN IF m.threw THEN Thr(Default500(m.error), log, m.db)
       ELSE IF m.val = <<>> \/ ~m.val[1].exito
       THEN Thr(throwClientError(
                  OrMsg(IF m.val = <<>> THEN NoMsg ELSE m.val[1].mensaje,
                        <<"No", "se", "pudo", "iniciar", "la", "sesión.">>), 400),
                log, m.db)
       ELSE Ret(<<[mensaje |-> <<"Sesión", "iniciada", "correctamente">>,
                   data |-> m.val]>>, log, m.db)
    : m \in iniciarSesionDB(idSesion, d) }

----------------------------------------------------------------------------
(* controllers/sesion.controller.js *)

iniciarSesion(rq, d) ==
  { IF s.threw THEN Next_(s.error, s.log, s.db)
    ELSE Sent(Res(200, s.val[1].mensaje, s.val[1].data, FALSE), s.log, s.db)
    : s \in iniciarSesion_service(rq.id, d) }

----------------------------------------------------------------------------
(* String operations on messages.  A message is the sequence of its words *)
(* with punctuation marks as words of their own, so that the substrings   *)
(* the services look for begin and end at word boundaries.                *)

\* String.prototype.includes
Includes(msg, needle) ==
  \E i \in 0..(Len(msg) - Len(needle)) :
    \A j \in 1..Len(needle) : msg[i + j] = needle[j]

\* toLowerCase of one word (the capitalised words that occur in messages)
LowerWord(w) ==
  CASE w = "Solicitud"  -> "solicitud"
    [] w = "Procesada"  -> "procesada"
    [] w = "El"         -> "el"
    [] w = "Estudiante" -> "estudiante"
    [] w = "Ya"         -> "ya"
    [] w = "Error"      -> "error"
    [] w = "Entrenamiento" -> "entrenamiento"
    [] w = "Exitosamente" -> "exitosamente"
    [] w = "No"         -> "no"
    [] w = "La"         -> "la"
    [] w = "Correo"     -> "correo"
    [] w = "Entrenador" -> "entrenador"
    [] w = "Información" -> "información"
    [] w = "Sesión"     -> "sesión"
    [] w = "Asignación" -> "asignación"
    [] w = "Género"     -> "género"
    [] w = "Observación" -> "observación"
    [] w = "Ocurrió"    -> "ocurrió"
    [] OTHER -> w

\* String.prototype.toLowerCase
toLowerCase(msg) == [i \in 1..Len(msg) |-> LowerWord(msg[i])]

----------------------------------------------------------------------------
(* Assignment of a cognitive variable *)

\* CC.FinalizarAsignacionVariableUFT($1)
FinalizarAsignacionVariableUFT(id, d) ==
  IF ~IsUUID(id) THEN {InvalidUUID(d)}
  ELSE IF id \notin DOMAIN d.asignaciones THEN
    { Rows(<<[exito |-> FALSE, mensaje |-> <<"Asignación", "no", "encontrada">>]>>, "no_existe", d),
      Rows(<<>>, "no_existe", d),
      Raise("P0001", <<"Asignación", "no", "encontrada">>, "no_existe", d),
      ConnectionLost("no_existe", d) }
  ELSE IF d.asignaciones[id] # "En Progreso" THEN
    { Rows(<<[exito |-> FALSE, mensaje |-> <<"La", "asignación", "no", "está", "En", "Progreso">>]>>, "no_finalizable", d),
      Rows(<<[exito |-> FALSE, mensaje |-> NoMsg]>>, "no_finalizable", d),
      Raise("P0001", <<"La", "asignación", "no", "está", "En", "Progreso">>, "no_finalizable", d),
      ConnectionLost("no_finalizable", d) }
  ELSE
    { Rows(<<[exito |-> TRUE, mensaje |-> <<"Asignación", "finalizada", "exitosamente">>]>>, "ok",
           [d EXCEPT !.asignaciones[id] = "Finalizado"]),
      ConnectionLost("ok", d) }

finalizarAsignacionVariableDB(idAsignacionVariable, d) ==
  { LET log == <<Call("model", "finalizarAsignacionVariableDB"),
                 PoolCall("FinalizarAsignacionVariableUFT", o)>>
    IN IF o.kind = "error" THEN Throws(o.error, log, o.db)
       ELSE Returns(FirstRow(o.rows), log, o.db)
    : o \in FinalizarAsignacionVariableUFT(idAsignacionVariable, d) }

\* a catch block that answers 500 with the text of the error it caught
CatchP0001_exponeTexto(e, generic) ==
  IF e.statusCode # 0 THEN e
  ELSE IF e.code = "P0001" THEN throwClientError(e.message, 400)
  ELSE E(500, "", e.message)

\* the catch block of the services that keep client errors, turn a RAISE
\* EXCEPTION (P0001) into a 400 and hide everything else behind a 500
CatchP0001(e, generic) ==
  IF e.statusCode # 0 THEN e
  ELSE IF e.code = "P0001" THEN throwClientError(e.message, 400)
  ELSE E(500, "", generic)

\* finalizarAsignacionVariable without its validation of the id
finalizarAsignacionVariable_sinValidar(idAsignacionVariable, d) ==
  LET svc == <<Call("service", "finalizarAsignacionVariable")>>
      generic == <<"Ocurrió", "un", "error", "inesperado", "en", "el", "servidor",
                   "al", "intentar", "finalizar", "la", "asignación", "de", "variable", ".">>
  IN
      { LET log == svc \o m.log
        IN IF m.threw THEN Thr(CatchP0001(m.error, generic), log, m.db)
           ELSE IF m.val = <<>>
           THEN Thr(throwClientError(<<"Error", "al", "finalizar", "la", "asignación", "de",
                                       "variable", "en", "la", "base", "de", "datos", ".">>, 500),
                    log, m.db)
           ELSE IF ~m.val[1].exito
           THEN Thr(throwClientError(
                      OrMsg(m.val[1].mensaje,
                            <<"No", "se", "pudo", "finalizar", "la", "asignación", "de", "variable", ".">>),
                      400), log, m.db)
           ELSE Ret(<<[mensaje |-> m.val[1].mensaje, data |-> m.val]>>, log, m.db)
        : m \in finalizarAsignacionVariableDB(idAsignacionVariable, d) }

finalizarAsignacionVariable(idAsignacionVariable, d) ==
  LET svc == <<Call("service", "finalizarAsignacionVariable")>>
      generic == <<"Ocurrió", "un", "error", "inesperado", "en", "el", "servidor",
                   "al", "intentar", "finalizar", "la", "asignación", "de", "variable", ".">>
  IN IF idAsignacionVariable = "" \/ ~IsUUID(idAsignacionVariable)
     THEN { Thr(throwClientError(<<"El", "ID", "de", "la", "asignación", "de", "variable",
                                   "es", "requerido", "y", "debe", "ser", "un", "UUID", "válido", ".">>, 400),
                svc, d) }
     ELSE
      { LET log == svc \o m.log
        IN IF m.threw THEN Thr(CatchP0001(m.error, generic), log, m.db)
           ELSE IF m.val = <<>>
           THEN Thr(throwClientError(<<"Error", "al", "finalizar", "la", "asignación", "de",
                                       "variable", "en", "la", "base", "de", "datos", ".">>, 500),
                    log, m.db)
           ELSE IF ~m.val[1].exito
           THEN Thr(throwClientError(
                      OrMsg(m.val[1].mensaje,
                            <<"No", "se", "pudo", "finalizar", "la", "asignación", "de", "variable", ".">>),
                      400), log, m.db)
           ELSE Ret(<<[mensaje |-> m.val[1].mensaje, data |-> m.val]>>, log, m.db)
        : m \in finalizarAsignacionVariableDB(idAsignacionVariable, d) }

finalizarAsignacionVariableController(rq, d) ==
  { IF s.threw THEN Next_(s.error, s.log, s.db)
    ELSE Sent(Res(200, s.val[1].mensaje, s.val[1].data, FALSE), s.log, s.db)
    : s \in finalizarAsignacionVariable(rq.id, d) }

----------------------------------------------------------------------------
(* Students of a faculty *)

\* CC.obtenerestudiantesporfacultaduft($1)
obtenerestudiantesporfacultaduft(facultadId, d) ==
  IF ~IsUUID(facultadId) THEN {InvalidUUID(d)}
  ELSE LET rows == IF facultadId \in DOMAIN d.facultades
                   THEN d.facultades[facultadId] ELSE <<>>
           caso == IF rows = <<>> THEN "sin_estudiantes" ELSE "con_estudiantes"
       IN { Rows(rows, caso, d), ConnectionLost(caso, d) }

obtenerEstudiantesPorFacultad(facultadId, d) ==
  IF facultadId = ""
  THEN { Throws(E(0, "", <<"El", "ID", "de", "la", "facultad", "es", "requerido", ".">>),
                <<Call("model", "obtenerEstudiantesPorFacultad")>>, d) }
  ELSE
  { LET log == <<Call("model", "obtenerEstudiantesPorFacultad"),
                 PoolCall("obtenerestudiantesporfacultaduft", o)>>
    IN IF o.kind = "error" THEN Throws(o.error, log, o.db)
       ELSE Returns(o.rows, log, o.db)
    : o \in obtenerestudiantesporfacultaduft(facultadId, d) }

obtenerEstudiantesPorFacultadController(rq, d) ==
  IF rq.id = "" \/ ~IsUUID(rq.id)
  THEN { Sent(Res(400, <<"El", "ID", "de", "la", "facultad", "proporcionado", "es", "inválido">>,
                  <<>>, FALSE), <<>>, d) }
  ELSE
  { IF m.threw THEN Next_(m.error, m.log, m.db)
    ELSE IF m.val = <<>>
    THEN Sent(Res(200, <<"No", "se", "encontraron", "estudiantes", "para", "la", "facultad">>,
                  <<>>, FALSE), m.log, m.db)
    ELSE Sent(Res(200, <<"Datos", "de", "estudiantes", "obtenidos", "correctamente", ".">>,
                  m.val, FALSE), m.log, m.db)
    : m \in obtenerEstudiantesPorFacultad(rq.id, d) }

----------------------------------------------------------------------------
(* Modification of a student *)

MsgProcesada == <<"Solicitud", "procesada", "para", "actualización", "exitosamente", ".">>
MsgCorreoEnUso == <<"El", "correo", "electrónico", "ya", "está", "en", "uso", "por", "otro", "estudiante", ".">>
MsgEstudianteNoExiste == <<"Estudiante", "no", "encontrado", ".">>
MsgProgramaNoExiste == <<"El", "programa", "no", "existe", ".">>

\* CC.modificarinformacionestudianteuft($1 .. $8); the student is named by
\* its document
modificarinformacionestudianteuft(numeroDoc, d) ==
  IF numeroDoc \notin d.estudiantes THEN
    { Rows(<<[mensaje |-> MsgEstudianteNoExiste, estudianteid |-> ""]>>, "no_existe", d),
      Rows(<<>>, "no_existe", d),
      Raise("P0001", MsgEstudianteNoExiste, "no_existe", d),
      ConnectionLost("no_existe", d) }
  ELSE
    { Rows(<<[mensaje |-> MsgProcesada, estudianteid |-> numeroDoc]>>, "ok", d),
      Rows(<<[mensaje |-> NoMsg, estudianteid |-> numeroDoc]>>, "ok", d),
      Rows(<<[mensaje |-> MsgCorreoEnUso, estudianteid |-> ""]>>, "correo_en_uso", d),
      Rows(<<[mensaje |-> MsgProgramaNoExiste, estudianteid |-> ""]>>, "dato_invalido", d),
      ConnectionLost("ok", d) }

modificarInformacionEstudiante(datos, d) ==
  { LET log == <<Call("model", "modificarInformacionEstudiante"),
                 PoolCall("modificarinformacionestudianteuft", o)>>
    IN IF o.kind = "error" THEN Throws(o.error, log, o.db)
       ELSE Returns(o.rows, log, o.db)
    : o \in modificarinformacionestudianteuft(datos, d) }

\* the catch block of the services that keep client errors and hide
\* everything else behind a 500 with a fixed message
Catch500(e, generic) == IF e.statusCode # 0 THEN e ELSE E(500, "", generic)

modificarEstudiante(numeroDocActual, d) ==
  LET generic == <<"Ocurrió", "un", "error", "inesperado", "en", "el", "servidor",
                   "al", "intentar", "modificar", "el", "estudiante", ".">>
  IN
  { LET log == <<Call("service", "modificarEstudiante")>> \o m.log
    IN IF m.threw THEN Thr(Catch500(m.error, generic), log, m.db)
       ELSE IF m.val = <<>>
       THEN Thr(throwClientError(<<"La", "operación", "de", "modificación", "no",
                                   "devolvió", "ningún", "resultado", ".">>, 500), log, m.db)
       ELSE LET resultadoDB == m.val[1]
                lowerCaseMessage == toLowerCase(resultadoDB.mensaje)
            IN IF resultadoDB.mensaje # NoMsg
                  /\ Includes(lowerCaseMessage, <<"ya", "está", "en", "uso", "por", "otro", "estudiante">>)
               THEN Thr(throwClientError(resultadoDB.mensaje, 409), log, m.db)
               ELSE IF resultadoDB.mensaje # NoMsg
                       /\ ~Includes(lowerCaseMessage, <<"procesada", "para", "actualización">>)
               THEN Thr(throwClientError(resultadoDB.mensaje, 400), log, m.db)
               ELSE Ret(<<resultadoDB>>, log, m.db)
    : m \in modificarInformacionEstudiante(numeroDocActual, d) }

modificarEstudianteController(rq, d) ==
  { IF s.threw THEN Next_(s.error, s.log, s.db)
    ELSE Sent(sendSuccess(200, s.val[1].mensaje, s.val), s.log, s.db)
    : s \in modificarEstudiante(rq.id, d) }

----------------------------------------------------------------------------
(* Reports (informes) *)

InformeRow(id, d) ==
  [entrenamientoid |-> id, entrenador |-> d.entrenamientos[id]]

\* all trainings, in a fixed order
TodosLosInformes(d) ==
  <<InformeRow("u1", d), InformeRow("u2", d)>>
  \o (IF "u9" \in DOMAIN d.entrenamientos THEN <<InformeRow("u9", d)>> ELSE <<>>)

\* SELECT * FROM CC.AdminListaEntrenamientosUV ORDER BY ...
AdminListaEntrenamientosUV(d) ==
  { Rows(TodosLosInformes(d), "lista", d), ConnectionLost("lista", d) }

\* SELECT * FROM CC.InformeVariablesFinalizadasPorEntrenamientoUV
\*   WHERE entrenamientoId = $1 ORDER BY variablecognitivanombre
InformeVariablesFinalizadasPorEntrenamientoUV(entrenamientoId, d) ==
  IF ~IsUUID(entrenamientoId) THEN {InvalidUUID(d)}
  ELSE IF entrenamientoId \notin DOMAIN d.entrenamientos
  THEN { Rows(<<>>, "no_existe", d), ConnectionLost("no_existe", d) }
  ELSE { Rows(<<InformeRow(entrenamientoId, d)>>, "con_finalizadas", d),
         Rows(<<>>, "sin_finalizadas", d),
         ConnectionLost("con_finalizadas", d) }

\* SELECT * FROM CC.EntrenadorInformesPorFacultadUV WHERE entrenadorId = $1
EntrenadorInformesPorFacultadUV(entrenadorId, d) ==
  { Rows(SelectSeq(TodosLosInformes(d), LAMBDA r : r.entrenador = entrenadorId), "lista", d),
    ConnectionLost("lista", d) }

\* models/informe.model.js
obtenerListaEntrenamientosAdmin_model(d) ==
  { LET log == <<Call("model", "obtenerListaEntrenamientosAdmin"),
                 PoolCall("AdminListaEntrenamientosUV", o)>>
    IN IF o.kind = "error" THEN Throws(o.error, log, o.db) ELSE Returns(o.rows, log, o.db)
    : o \in AdminListaEntrenamientosUV(d) }

obtenerDetalleInformeEntrenamiento(entrenamientoId, d) ==
  { LET log == <<Call("model", "obtenerDetalleInformeEntrenamiento"),
                 PoolCall("InformeVariablesFinalizadasPorEntrenamientoUV", o)>>
    IN IF o.kind = "error" THEN Throws(o.error, log, o.db) ELSE Returns(o.rows, log, o.db)
    : o \in InformeVariablesFinalizadasPorEntrenamientoUV(entrenamientoId, d) }

obtenerListaEntrenamientosEntrenador_model(entrenadorId, d) ==
  { LET log == <<Call("model", "obtenerListaEntrenamientosEntrenador"),
                 PoolCall("EntrenadorInformesPorFacultadUV", o)>>
    IN IF o.kind = "error" THEN Throws(o.error, log, o.db) ELSE Returns(o.rows, log, o.db)
    : o \in EntrenadorInformesPorFacultadUV(entrenadorId, d) }

\* services/informe.service.js
\* the service, given the outcomes ms its data-access function can have
listarEntrenamientosParaAdmin_sobre(ms) ==
  { LET log == <<Call("service", "listarEntrenamientosParaAdmin")>> \o m.log
    IN IF m.threw THEN Thr(Default500(m.error), log, m.db) ELSE Ret(m.val, log, m.db)
    : m \in ms }

listarEntrenamientosParaAdmin(d) ==
  listarEntrenamientosParaAdmin_sobre(obtenerListaEntrenamientosAdmin_model(d))

obtenerDetallesDeInformePorId(entrenamientoId, d) ==
  { LET log == <<Call("service", "obtenerDetallesDeInformePorId")>> \o m.log
    IN IF m.threw THEN Thr(Default500(m.error), log, m.db) ELSE Ret(m.val, log, m.db)
    : m \in obtenerDetalleInformeEntrenamiento(entrenamientoId, d) }

listarEntrenamientosEntrenador(entrenadorId, d) ==
  { LET log == <<Call("service", "listarEntrenamientosEntrenador")>> \o m.log
    IN IF m.threw THEN Thr(Default500(m.error), log, m.db) ELSE Ret(m.val, log, m.db)
    : m \in obtenerListaEntrenamientosEntrenador_model(entrenadorId, d) }

\* controllers/informe.controller.js
obtenerListaEntrenamientosAdmin(rq, d) ==
  { IF s.threw THEN Next_(s.error, s.log, s.db)
    ELSE Sent(Res(200, <<"Lista", "de", "entrenamientos", "obtenida", "exitosamente", ".">>,
                  s.val, FALSE), s.log, s.db)
    : s \in listarEntrenamientosParaAdmin(d) }

obtenerDetalleInformeAdmin(rq, d) ==
  { IF s.threw THEN Next_(s.error, s.log, s.db)
    ELSE Sent(Res(200, <<"Detalle", "del", "informe", "obtenido", "exitosamente", ".">>,
                  s.val, FALSE), s.log, s.db)
    : s \in obtenerDetallesDeInformePorId(rq.id, d) }

obtenerListaEntrenamientosEntrenador(rq, d) ==
  { IF s.threw THEN Next_(s.error, s.log, s.db)
    ELSE Sent(Res(200, <<"Lista", "de", "entrenamientos", "asignados", "obtenida", "exitosamente", ".">>,
                  s.val, FALSE), s.log, s.db)
    : s \in listarEntrenamientosEntrenador(rq.user.id, d) }

----------------------------------------------------------------------------
(* Abandoning / reactivating a cognitive variable *)

\* cc.abandonarvariablecognitivauft($1, $2, $3) and
\* cc.reactivarvariablecognitivauft($1, $2, $3)
CambiarEstadoVariableUFT(d) ==
  { Rows(<<[exito |-> TRUE, mensaje |-> <<"Operación", "realizada", "exitosamente">>]>>, "ok", d),
    Rows(<<[exito |-> FALSE, mensaje |-> <<"La", "variable", "no", "está", "asignada">>]>>, "rechazada", d),
    Rows(<<[exito |-> FALSE, mensaje |-> NoMsg]>>, "rechazada", d),
    Rows(<<>>, "rechazada", d),
    Raise("P0001", <<"La", "variable", "no", "está", "asignada">>, "rechazada", d),
    ConnectionLost("ok", d) }

\* models/variablesCognitivas.model.js
abandonarVariableCognitiva_model(d) ==
  { LET log == <<Call("model", "abandonarVariableCognitiva"),
                 PoolCall("abandonarvariablecognitivauft", o)>>
    IN IF o.kind = "error" THEN Throws(o.error, log, o.db) ELSE Returns(FirstRow(o.rows), log, o.db)
    : o \in CambiarEstadoVariableUFT(d) }

reactivarVariableCognitiva_model(d) ==
  { LET log == <<Call("model", "reactivarVariableCognitiva"),
                 PoolCall("reactivarvariablecognitivauft", o)>>
    IN IF o.kind = "error" THEN Throws(o.error, log, o.db) ELSE Returns(FirstRow(o.rows), log, o.db)
    : o \in CambiarEstadoVariableUFT(d) }

\* services/variablesCognitivas.service.js
abandonarVariableCognitiva_service(body, d) ==
  LET svc == <<Call("service", "abandonarVariableCognitiva")>>
  IN IF body = "incompleto"
     THEN { Thr(E(400, "", <<"Datos", "incompletos", ".">>), svc, d) }
     ELSE { LET log == svc \o m.log
            IN IF m.threw THEN Thr(Default500(m.error), log, m.db)
               ELSE IF m.val = <<>> \/ ~m.val[1].exito
               THEN Thr(E(400, "",
                          OrMsg(IF m.val = <<>> THEN NoMsg ELSE m.val[1].mensaje,
                                <<"No", "se", "pudo", "completar", "la", "operación", "de", "abandono", ".">>)),
                        log, m.db)
               ELSE Ret(m.val, log, m.db)
            : m \in abandonarVariableCognitiva_model(d) }

reactivarVariableCognitiva_service(body, d) ==
  LET svc == <<Call("service", "reactivarVariableCognitiva")>>
  IN IF body = "incompleto"
     THEN { Thr(E(400, "", <<"Datos", "incompletos", "para", "reactivar", ".">>), svc, d) }
     ELSE { LET log == svc \o m.log
            IN IF m.threw THEN Thr(Default500(m.error), log, m.db)
               ELSE IF m.val = <<>> \/ ~m.val[1].exito
               THEN Thr(E(400, "",
                          OrMsg(IF m.val = <<>> THEN NoMsg ELSE m.val[1].mensaje,
                                <<"No", "se", "pudo", "completar", "la", "reactivación", ".">>)),
                        log, m.db)
               ELSE Ret(m.val, log, m.db)
            : m \in reactivarVariableCognitiva_model(d) }

\* a controller whose catch block answers 500 whatever the service rejected with
abandonarVariableCognitiva_siempre500(rq, d) ==
  IF rq.body = "incompleto"
  THEN { Sent(sendError(400, <<"Datos", "incompletos", ".">>), <<>>, d) }
  ELSE { IF s.threw
         THEN Sent(sendError(500, OrMsg(s.error.message,
                                        <<"Error", "interno", "del", "servidor", "al", "abandonar",
                                          "la", "variable", "cognitiva">>)), s.log, s.db)
         ELSE IF s.val # <<>> /\ s.val[1].exito
         THEN Sent(sendSuccess(200, s.val[1].mensaje, s.val), s.log, s.db)
         ELSE Sent(sendError(400, IF s.val # <<>> THEN s.val[1].mensaje
                                  ELSE <<"No", "se", "pudo", "completar", "la", "operación">>),
                   s.log, s.db)
         : s \in abandonarVariableCognitiva_service(rq.body, d) }

\* controllers/variablesCognitivas.controller.js
abandonarVariableCognitiva(rq, d) ==
  IF rq.body = "incompleto"
  THEN { Sent(sendError(400, <<"Datos", "incompletos", ".">>), <<>>, d) }
  ELSE { IF s.threw
         THEN Sent(sendError(OrCode(s.error.statusCode, 500),
                             OrMsg(s.error.message,
                                   <<"Error", "interno", "del", "servidor", "al", "abandonar",
                                     "la", "variable", "cognitiva">>)), s.log, s.db)
         ELSE IF s.val # <<>> /\ s.val[1].exito
         THEN Sent(sendSuccess(200, s.val[1].mensaje, s.val), s.log, s.db)
         ELSE Sent(sendError(400, IF s.val # <<>> THEN s.val[1].mensaje
                                  ELSE <<"No", "se", "pudo", "completar", "la", "operación">>),
                   s.log, s.db)
         : s \in abandonarVariableCognitiva_service(rq.body, d) }

reactivarVariableCognitiva(rq, d) ==
  IF rq.body = "incompleto"
  THEN { Sent(sendError(400, <<"Datos", "incompletos", ".">>), <<>>, d) }
  ELSE { IF s.threw
         THEN Sent(sendError(OrCode(s.error.statusCode, 500),
                             OrMsg(s.error.message,
                                   <<"Error", "interno", "del", "servidor", "al", "reactivar",
                                     "la", "variable", "cognitiva">>)), s.log, s.db)
         ELSE IF s.val # <<>> /\ s.val[1].exito
         THEN Sent(sendSuccess(200, s.val[1].mensaje, s.val), s.log, s.db)
         ELSE Sent(sendError(400, IF s.val # <<>> THEN s.val[1].mensaje
                                  ELSE <<"No", "se", "pudo", "completar", "la", "reactivación">>),
                   s.log, s.db)
         : s \in reactivarVariableCognitiva_service(rq.body, d) }

----------------------------------------------------------------------------
(* Creation of a cognitive training *)

MsgEntrenamientoCreado == <<"Entrenamiento", "cognitivo", "creado", "exitosamente", ".">>
MsgYaTieneEntrenamiento ==
  <<"El", "estudiante", "ya", "tiene", "un", "entrenamiento", "activo", ".">>
MsgErrorEstudiante == <<"Error", ":", "el", "estudiante", "no", "existe", ".">>
MsgSinResultado ==
  <<"La", "función", "de", "base", "de", "datos", "no", "devolvió", "un",
    "resultado", "esperado", ".">>

\* CC.CrearEntrenamientoCognitivoUFT($1 .. $6): the training created gets
\* the id u9 and the trainer named in the request
CrearEntrenamientoCognitivoUFT(d) ==
  IF "u9" \in DOMAIN d.entrenamientos THEN
    { Rows(<<[entrenamientocognitivoid |-> "", mensaje |-> MsgYaTieneEntrenamiento]>>,
           "ya_tiene", d),
      Rows(<<>>, "sin_fila", d),
      ConnectionLost("ya_tiene", d) }
  ELSE
    { Rows(<<[entrenamientocognitivoid |-> "u9", mensaje |-> MsgEntrenamientoCreado]>>, "ok",
           [d EXCEPT !.entrenamientos =
              [i \in DOMAIN d.entrenamientos \cup {"u9"} |->
                 IF i = "u9" THEN t ELSE d.entrenamientos[i]]])
      : t \in UserIds }
    \cup
    { Rows(<<[entrenamientocognitivoid |-> "", mensaje |-> MsgErrorEstudiante]>>, "rechazada", d),
      Rows(<<[entrenamientocognitivoid |-> "", mensaje |-> NoMsg]>>, "rechazada", d),
      Rows(<<>>, "sin_fila", d),
      Raise("P0001", MsgErrorEstudiante, "rechazada", d),
      ConnectionLost("ok", d) }

\* models/entrenamientoCognitivo.model.js
crearEntrenamientoCognitivoDB(d) ==
  { LET log == <<Call("model", "crearEntrenamientoCognitivoDB"),
                 PoolCall("CrearEntrenamientoCognitivoUFT", o)>>
    IN IF o.kind = "error" THEN Throws(o.error, log, o.db)
       ELSE IF Len(o.rows) > 0
       THEN Returns(<<[entrenamientoId |-> o.rows[1].entrenamientocognitivoid,
                       mensaje |-> o.rows[1].mensaje]>>, log, o.db)
       ELSE Throws(E(0, "", MsgSinResultado), log, o.db)
    : o \in CrearEntrenamientoCognitivoUFT(d) }

\* the result objects { success, message, statusCode, data } of the services
Resultado(success, message, statusCode, data) ==
  [success |-> success, message |-> message, statusCode |-> statusCode, data |-> data]

\* services/entrenamientoCognitivo.service.js
validarDatosCrearEntrenamiento(body) ==
  IF body = "incompleto"
  THEN <<Resultado(FALSE, <<"La", "sigla", "del", "tipo", "de", "documento", "del",
                            "estudiante", "es", "requerida", ".">>, 400, <<>>)>>
  ELSE <<>>

manejarRespuestaCrearEntrenamiento(resultado) ==
  IF resultado.mensaje # NoMsg /\ Includes(resultado.mensaje, <<"exitosamente">>)
  THEN Resultado(TRUE, resultado.mensaje, 201,
                 <<[id |-> resultado.entrenamientoId, message |-> resultado.mensaje]>>)
  ELSE IF resultado.mensaje # NoMsg
          /\ Includes(resultado.mensaje, <<"ya", "tiene", "un", "entrenamiento">>)
  THEN Resultado(FALSE, resultado.mensaje, 409, <<>>)
  ELSE Resultado(FALSE, resultado.mensaje, 400, <<>>)

crearNuevoEntrenamientoCognitivo(body, d) ==
  LET svc == <<Call("service", "crearNuevoEntrenamientoCognitivo")>>
      errorValidacion == validarDatosCrearEntrenamiento(body)
  IN IF errorValidacion # <<>>
     THEN { Ret(errorValidacion, svc, d) }
     ELSE { LET log == svc \o m.log
            IN IF m.threw THEN Thr(Default500(m.error), log, m.db)
               ELSE Ret(<<manejarRespuestaCrearEntrenamiento(m.val[1])>>, log, m.db)
            : m \in crearEntrenamientoCognitivoDB(d) }

\* controllers/entrenamientoCognitivo.controller.js
crearNuevoEntrenamientoCognitivoController(rq, d) ==
  { IF s.threw THEN Next_(s.error, s.log, s.db)
    ELSE IF ~s.val[1].success
    THEN Sent(Res(OrCode(s.val[1].statusCode, 400), s.val[1].message, <<>>, FALSE),
              s.log, s.db)
    ELSE Sent(Res(201,
                  OrMsg(s.val[1].message,
                        <<"Entrenamiento", "cognitivo", "registrado", "exitosamente", ".">>),
                  s.val[1].data, FALSE), s.log, s.db)
    : s \in crearNuevoEntrenamientoCognitivo(rq.body, d) }

----------------------------------------------------------------------------
(* Trainers (entrenadores).  The stored functions that work on trainers   *)
(* keep data no other statement of the model reads: their outcomes are    *)
(* every answer the function can give, whatever the data.                 *)

\* path and body values that name something that exists
Existentes == {"u1", "u2"}

\* an e-mail parameter: the malformed value is the one without '@'
EsCorreo(p) == p \in {"u1", "u2", "u9"}

\* the driver's error carries a detail besides its message
WithDetail(o, detail) == [o EXCEPT !.error.detail = detail]

\* CC.RegistrarEntrenadorUFT($1 .. $7)
RegistrarEntrenadorUFT(d) ==
  { Rows(<<[identrenador |-> "u9", mensaje |-> <<"Entrenador", "registrado", "exitosamente", ".">>]>>, "ok", d),
    Rows(<<[identrenador |-> "u9", mensaje |-> NoMsg]>>, "ok", d),
    Rows(<<[identrenador |-> "", mensaje |-> <<"La", "facultad", "no", "existe", ".">>]>>, "rechazada", d),
    Rows(<<>>, "sin_fila", d),
    Raise("23505", <<"llave", "duplicada", "viola", "restricción", "de", "unicidad", "ccentrenador002uq">>,
          "duplicado", d),
    Raise("23505", <<"llave", "duplicada", ":", "documento">>, "duplicado", d),
    Raise("23505", <<"llave", "duplicada", ":", "correo">>, "duplicado", d),
    WithDetail(Raise("23505", <<"duplicate", "key">>, "duplicado", d),
               <<"Ya", "existe", "la", "llave", "(", "Correo", ")">>),
    Raise("P0001", <<"La", "facultad", "no", "existe", ".">>, "rechazada", d),
    ConnectionLost("ok", d) }

\* SELECT * FROM CC.DetalleEntrenadoresFacultadesUV [WHERE ...] ORDER BY ...
DetalleEntrenadoresFacultadesUV(d) ==
  { Rows(<<[idEntrenador |-> "u1"], [idEntrenador |-> "u2"]>>, "lista", d),
    Rows(<<>>, "lista", d),
    ConnectionLost("lista", d) }

\* CC.ModificarInformacionEntrenadorUFT($1 .. $6)
ModificarInformacionEntrenadorUFT(entrenadorID, d) ==
  IF ~IsUUID(entrenadorID) THEN {InvalidUUID(d)}
  ELSE IF entrenadorID \notin Existentes THEN
    { Rows(<<[mensaje |-> <<"Entrenador", "no", "encontrado", ".">>, entrenadorid |-> ""]>>, "no_existe", d),
      Rows(<<>>, "no_existe", d),
      Raise("P0001", <<"Entrenador", "no", "encontrado", ".">>, "no_existe", d),
      ConnectionLost("no_existe", d) }
  ELSE
    { Rows(<<[mensaje |-> <<"Información", "actualiza", "da", "correctamente", ".">>,
              entrenadorid |-> entrenadorID]>>, "ok", d),
      Rows(<<[mensaje |-> <<"No", "se", "especificaron", "cambios", ".">>,
              entrenadorid |-> entrenadorID]>>, "ok", d),
      Rows(<<[mensaje |-> <<"El", "correo", "ya", "está", "en", "uso", ".">>, entrenadorid |-> ""]>>,
           "correo_en_uso", d),
      Rows(<<[mensaje |-> <<"La", "facultad", "no", "existe", ".">>, entrenadorid |-> ""]>>,
           "dato_invalido", d),
      Rows(<<[mensaje |-> NoMsg, entrenadorid |-> entrenadorID]>>, "ok", d),
      ConnectionLost("ok", d) }

\* CC.DesactivarEntrenadorUFT($1)
DesactivarEntrenadorUFT(entrenadorID, d) ==
  IF ~IsUUID(entrenadorID) THEN {InvalidUUID(d)}
  ELSE IF entrenadorID \notin Existentes THEN
    { Rows(<<[exito |-> FALSE, mensaje |-> <<"Entrenador", "no", "encontrado", ".">>, entrenadorid |-> ""]>>,
           "no_existe", d),
      Rows(<<>>, "no_existe", d),
      ConnectionLost("no_existe", d) }
  ELSE
    { Rows(<<[exito |-> TRUE, mensaje |-> <<"Entrenador", "desactivado", ".">>,
              entrenadorid |-> entrenadorID]>>, "ok", d),
      Rows(<<[exito |-> FALSE, mensaje |-> <<"El", "entrenador", "ya", "está", "inactivo", ".">>,
              entrenadorid |-> entrenadorID]>>, "ya_inactivo", d),
      Rows(<<[exito |-> FALSE, mensaje |-> NoMsg, entrenadorid |-> entrenadorID]>>, "ya_inactivo", d),
      ConnectionLost("ok", d) }

\* CC.ObtenerEntrenadorPorEmailUFT($1)
ObtenerEntrenadorPorEmailUFT(pCorreo, d) ==
  { Rows(IF pCorreo \in Existentes THEN <<[facultad |-> pCorreo]>> ELSE <<>>,
         IF pCorreo \in Existentes THEN "con_facultades" ELSE "sin_facultades", d),
    ConnectionLost("con_facultades", d) }

\* SELECT ... FROM CC.entrenador e INNER JOIN CC.tipodocumento td ... WHERE e.correo = $1
EntrenadorPorCorreo(correo, d) ==
  { Rows(IF correo \in Existentes
         THEN <<[numerodocumento |-> correo, nombres |-> "Ana"]>> ELSE <<>>,
         IF correo \in Existentes THEN "existe" ELSE "no_existe", d),
    ConnectionLost("existe", d) }

\* INSERT INTO CC.entrenadorentrenamiento ... RETURNING id, entrenador, entrenamientocognitivo
InsertEntrenadorEntrenamiento(d) ==
  { Rows(<<[id |-> "u9", entrenador |-> "u1", entrenamientocognitivo |-> "u1"]>>, "ok", d),
    Rows(<<>>, "sin_fila", d),
    Raise("23503", <<"viola", "la", "llave", "foránea", "entrenador">>, "no_existe", d),
    Raise("23503", <<"viola", "la", "llave", "foránea", "entrenamientocognitivo">>, "no_existe", d),
    Raise("23503", <<"viola", "la", "llave", "foránea">>, "no_existe", d),
    Raise("23505", <<"llave", "duplicada">>, "duplicado", d),
    ConnectionLost("ok", d) }

\* models/entrenador.model.js
registrar(d) ==
  { LET log == <<Call("model", "registrar"), PoolCall("RegistrarEntrenadorUFT", o)>>
    IN IF o.kind = "error" THEN Throws(o.error, log, o.db)
       ELSE Returns(FirstRow(o.rows), log, o.db)
    : o \in RegistrarEntrenadorUFT(d) }

obtenerTodos(d) ==
  { LET log == <<Call("model", "obtenerTodos"), PoolCall("DetalleEntrenadoresFacultadesUV", o)>>
    IN IF o.kind = "error" THEN Throws(o.error, log, o.db)
       ELSE Returns(o.rows, log, o.db)
    : o \in DetalleEntrenadoresFacultadesUV(d) }

actualizar(entrenadorID, d) ==
  { LET log == <<Call("model", "actualizar"), PoolCall("ModificarInformacionEntrenadorUFT", o)>>
    IN IF o.kind = "error" THEN Throws(o.error, log, o.db)
       ELSE Returns(FirstRow(o.rows), log, o.db)
    : o \in ModificarInformacionEntrenadorUFT(entrenadorID, d) }

desactivar(entrenadorID, d) ==
  { LET log == <<Call("model", "desactivar"), PoolCall("DesactivarEntrenadorUFT", o)>>
    IN IF o.kind = "error" THEN Throws(o.error, log, o.db)
       ELSE Returns(FirstRow(o.rows), log, o.db)
    : o \in DesactivarEntrenadorUFT(entrenadorID, d) }

obtenerFacultadesPorEmailDB(pCorreo, d) ==
  { LET log == <<Call("model", "obtenerFacultadesPorEmailDB"),
                 PoolCall("ObtenerEntrenadorPorEmailUFT", o)>>
    IN IF o.kind = "error" THEN Throws(o.error, log, o.db)
       ELSE Returns(o.rows, log, o.db)
    : o \in ObtenerEntrenadorPorEmailUFT(pCorreo, d) }

obtenerDatosPorCorreo(correo, d) ==
  { LET log == <<Call("model", "obtenerDatosPorCorreo"), PoolCall("EntrenadorPorCorreo", o)>>
    IN IF o.kind = "error" THEN Throws(o.error, log, o.db)
       ELSE IF Len(o.rows) > 0
       THEN Returns(<<[numeroDocumento |-> o.rows[1].numerodocumento,
                       nombres |-> o.rows[1].nombres]>>, log, o.db)
       ELSE Returns(<<>>, log, o.db)
    : o \in EntrenadorPorCorreo(correo, d) }

crearEntrenadorEntrenamiento(d) ==
  { LET log == <<Call("model", "crearEntrenadorEntrenamiento"),
                 PoolCall("InsertEntrenadorEntrenamiento", o)>>
    IN IF o.kind = "error" THEN Throws(o.error, log, o.db)
       ELSE IF Len(o.rows) > 0
       THEN Returns(<<[id |-> o.rows[1].id, entrenador |-> o.rows[1].entrenador,
                       entrenamientocognitivo |-> o.rows[1].entrenamientocognitivo,
                       mensaje |-> <<"Relación", "entrenador-entrenamiento", "creada",
                                     "exitosamente", ".">>]>>, log, o.db)
       ELSE Throws(E(0, "", <<"No", "se", "pudo", "crear", "la", "relación",
                              "entrenador-entrenamiento", ".">>), log, o.db)
    : o \in InsertEntrenadorEntrenamiento(d) }

\* services/entrenador.service.js
MsgCorreoYaRegistrado ==
  <<"El", "correo", "electrónico", "ingresado", "ya", "está", "registrado", ".">>
MsgDocumentoYaRegistrado ==
  <<"Ya", "existe", "un", "entrenador", "con", "ese", "tipo", "y", "número", "de", "documento", ".">>
MsgEntrenadorYaExiste ==
  <<"Ya", "existe", "un", "entrenador", "con", "el", "documento", "o", "correo", "proporcionado", ".">>

\* a catch block of registrarEntrenador that recognises the unique violation
\* by the text of the message only
CatchRegistrarEntrenador_soloMensaje(error) ==
  IF error.statusCode # 0 THEN error
  ELSE LET lowerCaseMessage == toLowerCase(error.message)
       IN IF Includes(lowerCaseMessage, <<"unicidad">>)
          THEN throwClientError(
                 IF Includes(lowerCaseMessage, <<"correo">>) THEN MsgCorreoYaRegistrado
                 ELSE MsgEntrenadorYaExiste, 409)
          ELSE throwClientError(<<"Ocurrió", "un", "error", "inesperado", "al", "registrar",
                                  "al", "entrenador", ".">>, 500)

\* the catch block of registrarEntrenador
CatchRegistrarEntrenador(error) ==
  IF error.statusCode # 0 THEN error
  ELSE LET lowerCaseMessage == toLowerCase(error.message)
       IN IF \/ error.code = "23505"
             \/ Includes(lowerCaseMessage, <<"unicidad">>)
             \/ Includes(lowerCaseMessage, <<"ccentrenador001uq">>)
             \/ Includes(lowerCaseMessage, <<"ccentrenador002uq">>)
          THEN throwClientError(
                 IF \/ Includes(lowerCaseMessage, <<"correo">>)
                    \/ (error.detail # <<>> /\ Includes(toLowerCase(error.detail), <<"correo">>))
                 THEN MsgCorreoYaRegistrado
                 ELSE IF Includes(lowerCaseMessage, <<"documento">>)
                 THEN MsgDocumentoYaRegistrado
                 ELSE MsgEntrenadorYaExiste, 409)
          ELSE throwClientError(<<"Ocurrió", "un", "error", "inesperado", "al", "registrar",
                                  "al", "entrenador", ".">>, 500)

registrarEntrenador_service(d) ==
  { LET log == <<Call("service", "registrarEntrenador")>> \o m.log
    IN IF m.threw THEN Thr(CatchRegistrarEntrenador(m.error), log, m.db)
       ELSE IF m.val # <<>> /\ m.val[1].identrenador # ""
       THEN Ret(<<Resultado(TRUE, NoMsg, 0, m.val)>>, log, m.db)
       ELSE Thr(CatchRegistrarEntrenador(
                  E(0, "", <<"La", "operación", "en", "la", "base", "de", "datos", "no",
                             "confirmó", "el", "registro", ".">>)), log, m.db)
    : m \in registrar(d) }

obtenerListaCompletaEntrenadores(d) ==
  { LET log == <<Call("service", "obtenerListaCompletaEntrenadores")>> \o m.log
    IN IF m.threw THEN Thr(Default500(m.error), log, m.db)
       ELSE Ret(<<Resultado(TRUE, NoMsg, 0, m.val)>>, log, m.db)
    : m \in obtenerTodos(d) }

\* the catch block of modificarInformacionEntrenador: an error without a
\* status is replaced by a new Error, which has none either
CatchModificarEntrenador(error) ==
  IF error.statusCode # 0 THEN error
  ELSE E(0, "", <<"Ocurrió", "un", "error", "inesperado", "en", "el", "servidor", ".">>)

modificarInformacionEntrenador(entrenadorID, d) ==
  { LET log == <<Call("service", "modificarInformacionEntrenador")>> \o m.log
    IN IF m.threw THEN Thr(CatchModificarEntrenador(m.error), log, m.db)
       ELSE IF m.val = <<>> \/ m.val[1].mensaje = NoMsg
       THEN Thr(CatchModificarEntrenador(
                  throwClientError(<<"La", "operación", "en", "la", "base", "de", "datos",
                                     "no", "produjo", "un", "resultado", ".">>, 500)), log, m.db)
       ELSE LET mensaje == m.val[1].mensaje
                lowerCaseMessage == toLowerCase(mensaje)
            IN IF \/ Includes(lowerCaseMessage, <<"actualiza">>)
                  \/ Includes(lowerCaseMessage, <<"no", "se", "especificaron", "cambios">>)
               THEN Ret(<<Resultado(TRUE, NoMsg, 0, m.val)>>, log, m.db)
               ELSE Thr(CatchModificarEntrenador(
                          throwClientError(mensaje,
                            IF Includes(lowerCaseMessage, <<"ya", "está", "en", "uso">>) THEN 409
                            ELSE IF Includes(lowerCaseMessage, <<"no", "encontrado">>) THEN 404
                            ELSE 400)), log, m.db)
    : m \in actualizar(entrenadorID, d) }

desactivarEntrenador_service(entrenadorID, d) ==
  { LET log == <<Call("service", "desactivarEntrenador")>> \o m.log
    IN IF m.threw THEN Thr(Default500(m.error), log, m.db)
       ELSE IF m.val = <<>>
       THEN Thr(Default500(E(500, "", <<"No", "se", "pudo", "completar", "la", "desactivación",
                                        ",", "la", "operación", "no", "produjo", "resultado", ".">>)),
                log, m.db)
       ELSE IF ~m.val[1].exito
       THEN Thr(Default500(E(IF Includes(toLowerCase(m.val[1].mensaje), <<"no", "encontrado">>)
                             THEN 404 ELSE 400, "", m.val[1].mensaje)), log, m.db)
       ELSE Ret(<<Resultado(TRUE, m.val[1].mensaje, 0,
                            <<[entrenadorId |-> m.val[1].entrenadorid]>>)>>, log, m.db)
    : m \in desactivar(entrenadorID, d) }

MsgCorreoInvalido == <<"Correo", "electrónico", "inválido", ".">>

obtenerFacultadesPorEmailService(correo, d) ==
  IF ~EsCorreo(correo)
  THEN { Thr(E(0, "", MsgCorreoInvalido),
             <<Call("service", "obtenerFacultadesPorEmailService")>>, d) }
  ELSE { LET log == <<Call("service", "obtenerFacultadesPorEmailService")>> \o m.log
         IN IF m.threw THEN Thr(m.error, log, m.db) ELSE Ret(m.val, log, m.db)
         : m \in obtenerFacultadesPorEmailDB(correo, d) }

obtenerDatosPorCorreoService(correo, d) ==
  IF ~EsCorreo(correo)
  THEN { Thr(throwClientError(<<"El", "correo", "electrónico", "debe", "tener", "un",
                                "formato", "válido", ".">>, 400),
             <<Call("service", "obtenerDatosPorCorreoService")>>, d) }
  ELSE { LET log == <<Call("service", "obtenerDatosPorCorreoService")>> \o m.log
             generic == <<"Error", "interno", "del", "servidor", "al", "obtener", "los",
                          "datos", "del", "entrenador", ".">>
         IN IF m.threw THEN Thr(Catch500(m.error, generic), log, m.db)
            ELSE IF m.val = <<>>
            THEN Thr(Catch500(throwClientError(
                       <<"No", "se", "encontró", "un", "entrenador", "con", "el", "correo",
                         "electrónico", "proporcionado", ".">>, 404), generic), log, m.db)
            ELSE Ret(<<Resultado(TRUE, <<"Datos", "del", "entrenador", "obtenidos", "exitosamente">>,
                                 0, m.val)>>, log, m.db)
         : m \in obtenerDatosPorCorreo(correo, d) }

\* the catch block of crearEntrenadorEntrenamientoService
CatchCrearEntrenadorEntrenamiento(error) ==
  LET lowerCaseMessage == toLowerCase(error.message)
  IN IF error.code = "23503"
     THEN throwClientError(
            IF Includes(lowerCaseMessage, <<"entrenador">>)
            THEN <<"El", "ID", "del", "entrenador", "proporcionado", "no", "existe", "en",
                   "la", "base", "de", "datos", ".">>
            ELSE IF Includes(lowerCaseMessage, <<"entrenamientocognitivo">>)
            THEN <<"El", "ID", "del", "entrenamiento", "cognitivo", "proporcionado", "no",
                   "existe", "en", "la", "base", "de", "datos", ".">>
            ELSE <<"Uno", "de", "los", "IDs", "proporcionados", "no", "existe", "en", "la",
                   "base", "de", "datos", ".">>, 404)
     ELSE IF error.code = "23505"
     THEN throwClientError(<<"Ya", "existe", "una", "relación", "entre", "este", "entrenador",
                             "y", "este", "entrenamiento", "cognitivo", ".">>, 409)
     ELSE Default500(error)

crearEntrenadorEntrenamientoService(body, d) ==
  IF body = "incompleto"
  THEN { Thr(throwClientError(<<"El", "ID", "del", "entrenador", "es", "requerido", "y", "debe",
                                "ser", "una", "cadena", "de", "texto", "no", "vacía", ".">>, 400),
             <<Call("service", "crearEntrenadorEntrenamientoService")>>, d) }
  ELSE { LET log == <<Call("service", "crearEntrenadorEntrenamientoService")>> \o m.log
         IN IF m.threw THEN Thr(CatchCrearEntrenadorEntrenamiento(m.error), log, m.db)
            ELSE Ret(<<Resultado(TRUE, m.val[1].mensaje, 201,
                                 <<[relacionId |-> m.val[1].id]>>)>>, log, m.db)
         : m \in crearEntrenadorEntrenamiento(d) }

\* controllers/entrenador.controller.js
registrarEntrenador(rq, d) ==
  { IF s.threw THEN Next_(s.error, s.log, s.db)
    ELSE Sent(Res(201, OrMsg(s.val[1].data[1].mensaje,
                             <<"Entrenador", "registrado", "exitosamente", ".">>),
                  s.val[1].data, FALSE), s.log, s.db)
    : s \in registrarEntrenador_service(d) }

listarTodosLosEntrenadores(rq, d) ==
  { IF s.threw THEN Next_(s.error, s.log, s.db)
    ELSE Sent(Res(200, <<"Lista", "de", "entrenadores", "obtenida", "exitosamente", ".">>,
                  s.val[1].data, FALSE), s.log, s.db)
    : s \in obtenerListaCompletaEntrenadores(d) }

actualizarInformacionEntrenador(rq, d) ==
  { IF s.threw THEN Next_(s.error, s.log, s.db)
    ELSE Sent(Res(200, OrMsg(s.val[1].data[1].mensaje,
                             <<"Información", "del", "entrenador", "actualizada", ".">>),
                  s.val[1].data, FALSE), s.log, s.db)
    : s \in modificarInformacionEntrenador(rq.id, d) }

desactivarEntrenador(rq, d) ==
  { IF s.threw THEN Next_(s.error, s.log, s.db)
    ELSE Sent(Res(200, s.val[1].message, s.val[1].data, FALSE), s.log, s.db)
    : s \in desactivarEntrenador_service(rq.id, d) }

obtenerFacultadesPorEmailController(rq, d) ==
  { IF s.threw
    THEN IF s.error.message = MsgCorreoInvalido
         THEN Sent(Res(400, s.error.message, <<>>, FALSE), s.log, s.db)
         ELSE Sent(Res(500, <<"Error", "interno", "del", "servidor", "al", "obtener",
                              "facultades", ".">>, <<>>, FALSE), s.log, s.db)
    ELSE IF Len(s.val) = 0
    THEN Sent(Res(404, <<"No", "se", "encontraron", "facultades", "para", "el", "entrenador",
                         "con", "el", "correo", "proporcionado", ".">>, <<>>, FALSE), s.log, s.db)
    ELSE Sent(Res(200, NoMsg, s.val, FALSE), s.log, s.db)
    : s \in obtenerFacultadesPorEmailService(rq.id, d) }

obtenerDatosPorCorreoController(rq, d) ==
  { IF s.threw THEN Next_(s.error, s.log, s.db)
    ELSE Sent(Res(200, s.val[1].message, s.val[1].data, FALSE), s.log, s.db)
    : s \in obtenerDatosPorCorreoService(rq.id, d) }

crearEntrenadorEntrenamientoController(rq, d) ==
  { IF s.threw THEN Next_(s.error, s.log, s.db)
    ELSE IF ~s.val[1].success
    THEN Sent(Res(OrCode(s.val[1].statusCode, 400), s.val[1].message, <<>>, FALSE), s.log, s.db)
    ELSE Sent(Res(201, s.val[1].message, s.val[1].data, FALSE), s.log, s.db)
    : s \in crearEntrenadorEntrenamientoService(rq.body, d) }

----------------------------------------------------------------------------
(* Catalogues (utilidades) *)

\* SELECT * FROM a catalogue view (CC.VistaGenerosUV,
\* CC.VistaSiglasTipoDocumentoUV, CC.VistaNombresProgramaUV,
\* CC.ObtenerEntrenamientoCognitivosUV)
Vista(d) ==
  { Rows(<<[nombre |-> "a"], [nombre |-> "b"]>>, "lista", d),
    Rows(<<>>, "lista", d),
    ConnectionLost("lista", d) }

\* SELECT CC.obteneridestudiantepordocumentoufs($1, $2) AS estudiante_id
obteneridestudiantepordocumentoufs(numeroDocumento, d) ==
  IF numeroDocumento \in d.estudiantes
  THEN { Rows(<<[estudiante_id |-> numeroDocumento]>>, "existe", d), ConnectionLost("existe", d) }
  ELSE { Rows(<<[estudiante_id |-> ""]>>, "no_existe", d),
         Rows(<<>>, "no_existe", d),
         ConnectionLost("no_existe", d) }

\* models/utilidades.model.js
obtenerTodosLosGeneros(d) ==
  { LET log == <<Call("model", "obtenerTodosLosGeneros"), PoolCall("VistaGenerosUV", o)>>
    IN IF o.kind = "error" THEN Throws(o.error, log, o.db) ELSE Returns(o.rows, log, o.db)
    : o \in Vista(d) }

obtenerTodosLosTiposDocumento(d) ==
  { LET log == <<Call("model", "obtenerTodosLosTiposDocumento"),
                 PoolCall("VistaSiglasTipoDocumentoUV", o)>>
    IN IF o.kind = "error" THEN Throws(o.error, log, o.db) ELSE Returns(o.rows, log, o.db)
    : o \in Vista(d) }

obtenerTodosLosProgramas(d) ==
  { LET log == <<Call("model", "obtenerTodosLosProgramas"), PoolCall("VistaNombresProgramaUV", o)>>
    IN IF o.kind = "error" THEN Throws(o.error, log, o.db) ELSE Returns(o.rows, log, o.db)
    : o \in Vista(d) }

obtenerTiposVariablesCognitivasDB(d) ==
  { LET log == <<Call("model", "obtenerTiposVariablesCognitivasDB"),
                 PoolCall("ObtenerEntrenamientoCognitivosUV", o)>>
    IN IF o.kind = "error" THEN Throws(o.error, log, o.db) ELSE Returns(o.rows, log, o.db)
    : o \in Vista(d) }

obtenerIdEstudiantePorDocumentoDB(numeroDocumento, d) ==
  { LET log == <<Call("model", "obtenerIdEstudiantePorDocumentoDB"),
                 PoolCall("obteneridestudiantepordocumentoufs", o)>>
    IN IF o.kind = "error" THEN Throws(o.error, log, o.db)
       ELSE IF Len(o.rows) > 0 /\ o.rows[1].estudiante_id # ""
       THEN Returns(<<o.rows[1].estudiante_id>>, log, o.db)
       ELSE Returns(<<>>, log, o.db)
    : o \in obteneridestudiantepordocumentoufs(numeroDocumento, d) }

\* services/utilidades.service.js
listarTodosGenerosService(d) ==
  { LET log == <<Call("service", "listarTodosGenerosService")>> \o m.log
    IN IF m.threw THEN Thr(Default500(m.error), log, m.db)
       ELSE Ret(<<Resultado(TRUE, <<"Lista", "de", "géneros", "obtenida", "exitosamente", ".">>,
                            0, m.val)>>, log, m.db)
    : m \in obtenerTodosLosGeneros(d) }

listarTodosTiposDocumentoService(d) ==
  { LET log == <<Call("service", "listarTodosTiposDocumentoService")>> \o m.log
    IN IF m.threw THEN Thr(Default500(m.error), log, m.db)
       ELSE Ret(<<Resultado(TRUE, <<"Lista", "de", "tipos", "de", "documento", "obtenida",
                                    "exitosamente", ".">>, 0, m.val)>>, log, m.db)
    : m \in obtenerTodosLosTiposDocumento(d) }

listarTodosProgramasService(d) ==
  { LET log == <<Call("service", "listarTodosProgramasService")>> \o m.log
    IN IF m.threw THEN Thr(Default500(m.error), log, m.db)
       ELSE Ret(<<Resultado(TRUE, <<"Lista", "de", "programas", "obtenida", "exitosamente", ".">>,
                            0, m.val)>>, log, m.db)
    : m \in obtenerTodosLosProgramas(d) }

listarTiposVariablesCognitivasService(d) ==
  { LET log == <<Call("service", "listarTiposVariablesCognitivasService")>> \o m.log
    IN IF m.threw THEN Thr(Default500(m.error), log, m.db)
       ELSE Ret(<<Resultado(TRUE, <<"Lista", "de", "tipos", "de", "variables", "cognitivas",
                                    "obtenida", "exitosamente", ".">>, 0, m.val)>>, log, m.db)
    : m \in obtenerTiposVariablesCognitivasDB(d) }

obtenerIdEstudiantePorDocumentoService(numeroDocumento, d) ==
  IF numeroDocumento = ""
  THEN { Ret(<<Resultado(FALSE, <<"El", "número", "de", "documento", "es", "requerido", ".">>,
                         400, <<>>)>>,
             <<Call("service", "obtenerIdEstudiantePorDocumentoService")>>, d) }
  ELSE { LET log == <<Call("service", "obtenerIdEstudiantePorDocumentoService")>> \o m.log
         IN IF m.threw THEN Thr(Default500(m.error), log, m.db)
            ELSE IF m.val # <<>>
            THEN Ret(<<Resultado(TRUE, <<"ID", "de", "estudiante", "obtenido", "exitosamente", ".">>,
                                 0, m.val)>>, log, m.db)
            ELSE Ret(<<Resultado(FALSE, <<"No", "se", "encontró", "estudiante", "con", "el", "tipo",
                                          "y", "número", "de", "documento", "especificados", ".">>,
                                 404, <<>>)>>, log, m.db)
         : m \in obtenerIdEstudiantePorDocumentoDB(numeroDocumento, d) }

\* controllers/utilidades.controller.js
obtenerGenerosController(rq, d) ==
  { IF s.threw THEN Next_(s.error, s.log, s.db)
    ELSE Sent(Res(200, s.val[1].message, s.val[1].data, FALSE), s.log, s.db)
    : s \in listarTodosGenerosService(d) }

obtenerTiposDocumentoController(rq, d) ==
  { IF s.threw THEN Next_(s.error, s.log, s.db)
    ELSE Sent(Res(200, s.val[1].message, s.val[1].data, FALSE), s.log, s.db)
    : s \in listarTodosTiposDocumentoService(d) }

obtenerProgramasController(rq, d) ==
  { IF s.threw THEN Next_(s.error, s.log, s.db)
    ELSE Sent(Res(200, s.val[1].message, s.val[1].data, FALSE), s.log, s.db)
    : s \in listarTodosProgramasService(d) }

obtenerTiposVariablesCognitivasController(rq, d) ==
  { IF s.threw THEN Next_(s.error, s.log, s.db)
    ELSE Sent(Res(200, s.val[1].message, s.val[1].data, FALSE), s.log, s.db)
    : s \in listarTiposVariablesCognitivasService(d) }

obtenerIdEstudiantePorDocumentoController(rq, d) ==
  { IF s.threw THEN Next_(s.error, s.log, s.db)
    ELSE IF ~s.val[1].success
    THEN Sent(Res(OrCode(s.val[1].statusCode, 400), s.val[1].message, <<>>, FALSE), s.log, s.db)
    ELSE Sent(Res(200, s.val[1].message, s.val[1].data, FALSE), s.log, s.db)
    : s \in obtenerIdEstudiantePorDocumentoService(rq.id, d) }

----------------------------------------------------------------------------
(* Trainings, assignments and sessions: the remaining statements *)

\* SELECT * FROM CC.DetalleEntrenamientoEstudianteUV WHERE ... = $1 AND ... = $2
DetalleEntrenamientoEstudianteUV(d) ==
  { Rows(<<[entrenamientoId |-> "u1"]>>, "con_entrenamiento", d),
    Rows(<<>>, "sin_entrenamiento", d),
    ConnectionLost("con_entrenamiento", d) }

\* SELECT CC.RegistrarEntrenamientoAsignacionUFS(...) as mensaje; the
\* assignments it creates are not addressed by any request of the model
RegistrarEntrenamientoAsignacionUFS(d) ==
  { Rows(<<[mensaje |-> <<"Asignación", "registrada", "con", "éxito", ".">>]>>, "ok", d),
    Rows(<<[mensaje |-> <<"Error", ":", "el", "estudiante", "no", "existe", ".">>]>>, "rechazada", d),
    Rows(<<[mensaje |-> NoMsg]>>, "rechazada", d),
    Rows(<<>>, "sin_fila", d),
    Raise("P0001", <<"Error", ":", "el", "estudiante", "no", "existe", ".">>, "rechazada", d),
    ConnectionLost("ok", d) }

\* SELECT * FROM CC.ProgresoVariableUV WHERE "asignacionVariableId" = $1
ProgresoVariableUV(asignacionVariableId, d) ==
  IF ~IsUUID(asignacionVariableId) THEN {InvalidUUID(d)}
  ELSE IF asignacionVariableId \in DOMAIN d.asignaciones
  THEN { Rows(<<[asignacionVariableId |-> asignacionVariableId,
                 estado |-> d.asignaciones[asignacionVariableId]]>>, "existe", d),
         ConnectionLost("existe", d) }
  ELSE { Rows(<<>>, "no_existe", d), ConnectionLost("no_existe", d) }

\* CC.ActualizarObservacionSesionUFT($1, $2)
ActualizarObservacionSesionUFT(idSesion, d) ==
  IF ~IsUUID(idSesion) THEN {InvalidUUID(d)}
  ELSE IF idSesion \notin DOMAIN d.sesiones THEN
    { Rows(<<[sesionid |-> "", mensaje |-> <<"Sesión", "no", "encontrada">>]>>, "no_existe", d),
      Rows(<<>>, "no_existe", d),
      Raise("P0001", <<"Sesión", "no", "encontrada">>, "no_existe", d),
      ConnectionLost("no_existe", d) }
  ELSE
    { Rows(<<[sesionid |-> idSesion, mensaje |-> <<"Observación", "actualiza", "da", ".">>]>>, "ok", d),
      ConnectionLost("ok", d) }

MsgEntrenamientoModificado == <<"Entrenamiento", "modificado", "exitosamente", ".">>
MsgSinEntrenamiento ==
  <<"El", "estudiante", "no", "tiene", "un", "entrenamiento", "activo", ".">>
MsgEntrenadorNoExiste == <<"El", "nuevo", "entrenador", "no", "existe", ".">>

\* cc.modificarentrenamientocognitivouft($1 .. $7); the student is named
\* by its document
modificarentrenamientocognitivouft(numeroDocEstudiante, d) ==
  IF numeroDocEstudiante \notin d.estudiantes THEN
    { Rows(<<[mensaje |-> MsgSinEntrenamiento, entrenamientocognitivoid |-> ""]>>, "sin_entrenamiento", d),
      Rows(<<>>, "sin_entrenamiento", d),
      Raise("P0001", MsgSinEntrenamiento, "sin_entrenamiento", d),
      ConnectionLost("sin_entrenamiento", d) }
  ELSE
    { Rows(<<[mensaje |-> MsgEntrenamientoModificado, entrenamientocognitivoid |-> "u1"]>>, "ok", d),
      Rows(<<[mensaje |-> NoMsg, entrenamientocognitivoid |-> ""]>>, "dato_invalido", d),
      Rows(<<[mensaje |-> MsgEntrenadorNoExiste, entrenamientocognitivoid |-> ""]>>, "dato_invalido", d),
      Raise("P0001", MsgEntrenadorNoExiste, "dato_invalido", d),
      ConnectionLost("ok", d) }

\* CC.CrearSesionEntrenamientoUFT($1 .. $5): the first session created gets
\* the id u9; later ones are not addressed by any request of the model
CrearSesionEntrenamientoUFT(d) ==
  { IF "u9" \in DOMAIN d.sesiones
    THEN Rows(<<[sesionentrenamientoid |-> "u10", mensaje |-> <<"Sesión", "creada">>]>>, "ok", d)
    ELSE Rows(<<[sesionentrenamientoid |-> "u9", mensaje |-> <<"Sesión", "creada">>]>>, "ok",
              [d EXCEPT !.sesiones = [i \in DOMAIN d.sesiones \cup {"u9"} |->
                                        IF i = "u9" THEN "Por Iniciar" ELSE d.sesiones[i]]]),
    Rows(<<[sesionentrenamientoid |-> "",
            mensaje |-> <<"La", "variable", "no", "está", "asignada">>]>>, "rechazada", d),
    Rows(<<[sesionentrenamientoid |-> "", mensaje |-> NoMsg]>>, "rechazada", d),
    Rows(<<>>, "rechazada", d),
    Raise("P0001", <<"La", "variable", "no", "está", "asignada">>, "rechazada", d),
    ConnectionLost("ok", d) }

\* CC.FinalizarSesionEntrenamientoUFT($1, $2, $3)
FinalizarSesionEntrenamientoUFT(idSesion, d) ==
  IF ~IsUUID(idSesion) THEN {InvalidUUID(d)}
  ELSE IF idSesion \notin DOMAIN d.sesiones THEN
    { Rows(<<[idsesion |-> "", mensaje |-> <<"Error", ":", "sesión", "no", "encontrada">>]>>, "no_existe", d),
      Rows(<<>>, "no_existe", d),
      Raise("P0001", <<"Sesión", "no", "encontrada">>, "no_existe", d),
      ConnectionLost("no_existe", d) }
  ELSE IF d.sesiones[idSesion] # "En Progreso" THEN
    { Rows(<<[idsesion |-> idSesion,
              mensaje |-> <<"Ocurrió", "un", "error", ":", "la", "sesión", "no", "está", "en", "progreso">>]>>,
           "no_finalizable", d),
      Rows(<<[idsesion |-> idSesion, mensaje |-> <<"La", "sesión", "no", "está", "en", "progreso">>]>>,
           "no_finalizable", d),
      Rows(<<[idsesion |-> idSesion, mensaje |-> NoMsg]>>, "no_finalizable", d),
      ConnectionLost("no_finalizable", d) }
  ELSE
    { Rows(<<[idsesion |-> idSesion, mensaje |-> <<"Sesión", "finalizada", "correctamente">>]>>, "ok",
           [d EXCEPT !.sesiones[idSesion] = "Finalizado"]),
      ConnectionLost("ok", d) }

\* models/entrenamientoCognitivo.model.js
obtenerEntrenamientoCognitivoPorDocumento(d) ==
  { LET log == <<Call("model", "obtenerEntrenamientoCognitivoPorDocumento"),
                 PoolCall("DetalleEntrenamientoEstudianteUV", o)>>
    IN IF o.kind = "error" THEN Throws(o.error, log, o.db) ELSE Returns(o.rows, log, o.db)
    : o \in DetalleEntrenamientoEstudianteUV(d) }

registrarEntrenamientoAsignacionDB(d) ==
  { LET log == <<Call("model", "registrarEntrenamientoAsignacionDB"),
                 PoolCall("RegistrarEntrenamientoAsignacionUFS", o)>>
    IN IF o.kind = "error" THEN Throws(o.error, log, o.db)
       ELSE IF Len(o.rows) > 0
       THEN Returns(<<[mensaje |-> o.rows[1].mensaje]>>, log, o.db)
       ELSE Throws(E(0, "", MsgSinResultado), log, o.db)
    : o \in RegistrarEntrenamientoAsignacionUFS(d) }

obtenerProgresoVariablePorId(asignacionVariableId, d) ==
  { LET log == <<Call("model", "obtenerProgresoVariablePorId"), PoolCall("ProgresoVariableUV", o)>>
    IN IF o.kind = "error" THEN Throws(o.error, log, o.db)
       ELSE Returns(FirstRow(o.rows), log, o.db)
    : o \in ProgresoVariableUV(asignacionVariableId, d) }

actualizarObservacionSesionDB(idSesion, d) ==
  { LET log == <<Call("model", "actualizarObservacionSesionDB"),
                 PoolCall("ActualizarObservacionSesionUFT", o)>>
    IN IF o.kind = "error" THEN Throws(o.error, log, o.db)
       ELSE IF Len(o.rows) > 0 THEN Returns(<<o.rows[1]>>, log, o.db)
       ELSE Throws(E(0, "", <<"La", "operación", "en", "la", "base", "de", "datos", "no",
                              "devolvió", "un", "resultado", ".">>), log, o.db)
    : o \in ActualizarObservacionSesionUFT(idSesion, d) }

modificarEntrenamientoCognitivoDB(numeroDocEstudiante, d) ==
  { LET log == <<Call("model", "modificarEntrenamientoCognitivoDB"),
                 PoolCall("modificarentrenamientocognitivouft", o)>>
    IN IF o.kind = "error" THEN Throws(o.error, log, o.db)
       ELSE IF Len(o.rows) > 0 THEN Returns(<<o.rows[1]>>, log, o.db)
       ELSE Throws(E(0, "", MsgSinResultado), log, o.db)
    : o \in modificarentrenamientocognitivouft(numeroDocEstudiante, d) }

crearSesionDB(d) ==
  { LET log == <<Call("model", "crearSesionDB"), PoolCall("CrearSesionEntrenamientoUFT", o)>>
    IN IF o.kind = "error" THEN Throws(o.error, log, o.db)
       ELSE Returns(FirstRow(o.rows), log, o.db)
    : o \in CrearSesionEntrenamientoUFT(d) }

finalizarSesionDB(idSesion, d) ==
  { LET log == <<Call("model", "finalizarSesionDB"), PoolCall("FinalizarSesionEntrenamientoUFT", o)>>
    IN IF o.kind = "error" THEN Throws(o.error, log, o.db)
       ELSE Returns(FirstRow(o.rows), log, o.db)
    : o \in FinalizarSesionEntrenamientoUFT(idSesion, d) }

\* services/entrenamientoCognitivo.service.js
\* the service, given the outcomes ms its data-access function can have
consultarEntrenamientoPorDocumento_sobre(body, ms, d) ==
  IF body = "incompleto"
  THEN { Ret(<<Resultado(FALSE, <<"El", "tipo", "de", "documento", "es", "requerido", ".">>,
                         400, <<>>)>>,
             <<Call("service", "consultarEntrenamientoPorDocumento")>>, d) }
  ELSE { LET log == <<Call("service", "consultarEntrenamientoPorDocumento")>> \o m.log
         IN IF m.threw THEN Thr(Default500(m.error), log, m.db)
            ELSE IF Len(m.val) = 0
            THEN Ret(<<Resultado(TRUE, <<"No", "se", "encontró", "ningún", "entrenamiento",
                                         "cognitivo", "para", "el", "estudiante", "especificado", ".">>,
                                 0, <<>>)>>, log, m.db)
            ELSE Ret(<<Resultado(TRUE, NoMsg, 0, m.val)>>, log, m.db)
         : m \in ms }

consultarEntrenamientoPorDocumento(body, d) ==
  consultarEntrenamientoPorDocumento_sobre(body, obtenerEntrenamientoCognitivoPorDocumento(d), d)

registrarNuevaAsignacionService(body, d) ==
  IF body = "incompleto"
  THEN { Ret(<<Resultado(FALSE, <<"El", "ID", "del", "estudiante", "es", "requerido", "y", "debe",
                                  "ser", "un", "UUID", "válido", ".">>, 400, <<>>)>>,
             <<Call("service", "registrarNuevaAsignacionService")>>, d) }
  ELSE { LET log == <<Call("service", "registrarNuevaAsignacionService")>> \o m.log
         IN IF m.threw THEN Thr(m.error, log, m.db)
            ELSE IF m.val[1].mensaje # NoMsg /\ Includes(m.val[1].mensaje, <<"éxito">>)
            THEN Ret(<<Resultado(TRUE, m.val[1].mensaje, 201, <<>>)>>, log, m.db)
            ELSE Ret(<<Resultado(FALSE,
                                 OrMsg(m.val[1].mensaje,
                                       <<"Ocurrió", "un", "error", "en", "la", "base", "de", "datos", ".">>),
                                 400, <<>>)>>, log, m.db)
         : m \in registrarEntrenamientoAsignacionDB(d) }

consultarProgresoVariable(asignacionVariableId, d) ==
  IF asignacionVariableId = ""
  THEN { Ret(<<Resultado(FALSE, <<"El", "ID", "de", "la", "asignación", "de", "variable", "es",
                                  "requerido", ".">>, 400, <<>>)>>,
             <<Call("service", "consultarProgresoVariable")>>, d) }
  ELSE { LET log == <<Call("service", "consultarProgresoVariable")>> \o m.log
         IN IF m.threw THEN Thr(Default500(m.error), log, m.db)
            ELSE IF m.val = <<>>
            THEN Ret(<<Resultado(FALSE, <<"No", "se", "encontraron", "detalles", "de", "progreso",
                                          "para", "el", "ID", "proporcionado", ".">>, 404, <<>>)>>,
                     log, m.db)
            ELSE Ret(<<Resultado(TRUE, NoMsg, 0, m.val)>>, log, m.db)
         : m \in obtenerProgresoVariablePorId(asignacionVariableId, d) }

\* the catch block of actualizarObservacionSesion: the default status is 400
Default400(e) == IF e.statusCode = 0 THEN [e EXCEPT !.statusCode = 400] ELSE e

actualizarObservacionSesion(idSesion, body, d) ==
  IF body = "incompleto"
  THEN { Ret(<<Resultado(FALSE, <<"La", "observación", "debe", "ser", "una", "cadena", "de",
                                  "texto", ".">>, 400, <<>>)>>,
             <<Call("service", "actualizarObservacionSesion")>>, d) }
  ELSE { LET log == <<Call("service", "actualizarObservacionSesion")>> \o m.log
         IN IF m.threw THEN Thr(Default400(m.error), log, m.db)
            ELSE IF m.val # <<>> /\ m.val[1].sesionid # ""
            THEN Ret(<<Resultado(TRUE, m.val[1].mensaje, 0, m.val)>>, log, m.db)
            ELSE Thr(Default400(E(400, "",
                                  IF m.val # <<>> THEN m.val[1].mensaje
                                  ELSE <<"No", "se", "pudo", "actualiza", "r", "la", "observación", ".">>)),
                     log, m.db)
         : m \in actualizarObservacionSesionDB(idSesion, d) }

validarDatosModificarEntrenamiento(body) ==
  IF body = "incompleto"
  THEN <<throwClientError(<<"Para", "cambiar", "el", "entrenador", ",", "se", "deben",
                            "proporcionar", "tanto", "la", "sigla", "como", "el", "número",
                            "de", "documento", "del", "nuevo", "entrenador", ".">>, 400)>>
  ELSE <<>>

\* manejarRespuestaModificarEntrenamiento without the 404 branch: every
\* controlled message of the database becomes a 400
manejarRespuestaModificarEntrenamiento_sin404(resultadoDB) ==
  IF resultadoDB.mensaje # NoMsg
     /\ ~Includes(toLowerCase(resultadoDB.mensaje), <<"exitosamente">>)
  THEN <<throwClientError(resultadoDB.mensaje, 400)>>
  ELSE <<>>

\* returns the error it throws, or nothing when it returns resultadoDB
manejarRespuestaModificarEntrenamiento(resultadoDB) ==
  IF resultadoDB.mensaje # NoMsg
     /\ ~Includes(toLowerCase(resultadoDB.mensaje), <<"exitosamente">>)
  THEN <<throwClientError(resultadoDB.mensaje,
                          IF Includes(toLowerCase(resultadoDB.mensaje),
                                      <<"no", "tiene", "un", "entrenamiento">>)
                          THEN 404 ELSE 400)>>
  ELSE <<>>

modificarEntrenamientoCognitivo(numeroDocEstudiante, body, d) ==
  LET svc == <<Call("service", "modificarEntrenamientoCognitivo")>>
      generic == <<"Ocurrió", "un", "error", "inesperado", "en", "el", "servidor", "al",
                   "intentar", "modificar", "el", "entrenamiento", ".">>
      invalido == validarDatosModificarEntrenamiento(body)
  IN IF invalido # <<>>
     THEN { Thr(CatchP0001(invalido[1], generic), svc, d) }
     ELSE { LET log == svc \o m.log
                rechazo == manejarRespuestaModificarEntrenamiento(m.val[1])
            IN IF m.threw THEN Thr(CatchP0001(m.error, generic), log, m.db)
               ELSE IF rechazo # <<>> THEN Thr(CatchP0001(rechazo[1], generic), log, m.db)
               ELSE Ret(m.val, log, m.db)
            : m \in modificarEntrenamientoCognitivoDB(numeroDocEstudiante, d) }

crearNuevaSesion(body, d) ==
  LET svc == <<Call("service", "crearNuevaSesion")>>
  IN IF body = "incompleto"
     THEN { Thr(Default500(throwClientError(
                  <<"Se", "requieren", "los", "datos", "del", "estudiante", "y", "el", "nombre",
                    "de", "la", "variable", ".">>, 400)), svc, d) }
     ELSE { LET log == svc \o m.log
            IN IF m.threw THEN Thr(Default500(m.error), log, m.db)
               ELSE IF m.val = <<>> \/ m.val[1].sesionentrenamientoid = ""
               THEN Thr(Default500(throwClientError(
                          OrMsg(IF m.val = <<>> THEN NoMsg ELSE m.val[1].mensaje,
                                <<"Error", "al", "crear", "la", "sesión", "en", "la", "base",
                                  "de", "datos", ".">>), 400)), log, m.db)
               ELSE Ret(<<[mensaje |-> <<"Sesión", "creada", "exitosamente">>, data |-> m.val]>>,
                        log, m.db)
            : m \in crearSesionDB(d) }

\* finalizarSesion testing the message for 'Error' only
finalizarSesion_soloError(idSesion, body, d) ==
  LET svc == <<Call("service", "finalizarSesion")>>
  IN IF idSesion = "" \/ ~IsUUID(idSesion)
     THEN { Thr(Default500(throwClientError(
                  <<"El", "ID", "de", "la", "sesión", "es", "requerido", "y", "debe", "ser",
                    "un", "UUID", "válido", ".">>, 400)), svc, d) }
     ELSE IF body = "incompleto"
     THEN { Thr(Default500(throwClientError(
                  <<"Las", "nuevas", "métricas", "son", "requeridas", "y", "deben", "ser", "un",
                    "objeto", "JSON", "válido", ".">>, 400)), svc, d) }
     ELSE { LET log == svc \o m.log
            IN IF m.threw THEN Thr(Default500(m.error), log, m.db)
               ELSE IF m.val = <<>> \/ m.val[1].mensaje = NoMsg
               THEN Thr(Default500(throwClientError(
                          <<"Error", "al", "finalizar", "la", "sesión", "en", "la", "base", "de",
                            "datos", ".">>, 500)), log, m.db)
               ELSE IF Includes(m.val[1].mensaje, <<"Error">>)
               THEN Thr(Default500(throwClientError(m.val[1].mensaje, 400)), log, m.db)
               ELSE Ret(<<[mensaje |-> m.val[1].mensaje,
                           data |-> <<[idSesion |-> m.val[1].idsesion]>>]>>, log, m.db)
            : m \in finalizarSesionDB(idSesion, d) }

finalizarSesion(idSesion, body, d) ==
  LET svc == <<Call("service", "finalizarSesion")>>
  IN IF idSesion = "" \/ ~IsUUID(idSesion)
     THEN { Thr(Default500(throwClientError(
                  <<"El", "ID", "de", "la", "sesión", "es", "requerido", "y", "debe", "ser",
                    "un", "UUID", "válido", ".">>, 400)), svc, d) }
     ELSE IF body = "incompleto"
     THEN { Thr(Default500(throwClientError(
                  <<"Las", "nuevas", "métricas", "son", "requeridas", "y", "deben", "ser", "un",
                    "objeto", "JSON", "válido", ".">>, 400)), svc, d) }
     ELSE { LET log == svc \o m.log
            IN IF m.threw THEN Thr(Default500(m.error), log, m.db)
               ELSE IF m.val = <<>> \/ m.val[1].mensaje = NoMsg
               THEN Thr(Default500(throwClientError(
                          <<"Error", "al", "finalizar", "la", "sesión", "en", "la", "base", "de",
                            "datos", ".">>, 500)), log, m.db)
               ELSE IF \/ Includes(m.val[1].mensaje, <<"Error">>)
                       \/ Includes(m.val[1].mensaje, <<"error">>)
               THEN Thr(Default500(throwClientError(m.val[1].mensaje, 400)), log, m.db)
               ELSE Ret(<<[mensaje |-> m.val[1].mensaje,
                           data |-> <<[idSesion |-> m.val[1].idsesion]>>]>>, log, m.db)
            : m \in finalizarSesionDB(idSesion, d) }

\* controllers/entrenamientoCognitivo.controller.js
obtenerEntrenamientoEstudiantePorDocumentoController(rq, d) ==
  { IF s.threw THEN Next_(s.error, s.log, s.db)
    ELSE IF ~s.val[1].success
    THEN Sent(Res(OrCode(s.val[1].statusCode, 400), s.val[1].message, <<>>, FALSE), s.log, s.db)
    ELSE IF Len(s.val[1].data) = 0
    THEN Sent(Res(200, OrMsg(s.val[1].message,
                             <<"No", "se", "encontró", "ningún", "entrenamiento", "cognitivo",
                               "para", "el", "estudiante", "especificado", ".">>),
                  <<>>, FALSE), s.log, s.db)
    ELSE Sent(Res(200, <<"Detalle(s)", "del", "entrenamiento", "cognitivo", "obtenidos",
                         "correctamente", ".">>, s.val[1].data, FALSE), s.log, s.db)
    : s \in consultarEntrenamientoPorDocumento(rq.body, d) }

registrarEntrenamientoAsignacionController(rq, d) ==
  { IF s.threw THEN Next_(s.error, s.log, s.db)
    ELSE Sent(Res(OrCode(s.val[1].statusCode, 500), s.val[1].message, <<>>, FALSE), s.log, s.db)
    : s \in registrarNuevaAsignacionService(rq.body, d) }

obtenerProgresoVariableController(rq, d) ==
  { IF s.threw THEN Next_(s.error, s.log, s.db)
    ELSE IF ~s.val[1].success
    THEN Sent(Res(OrCode(s.val[1].statusCode, 400), s.val[1].message, <<>>, FALSE), s.log, s.db)
    ELSE Sent(Res(200, <<"Detalles", "de", "progreso", "obtenidos", "correctamente", ".">>,
                  s.val[1].data, FALSE), s.log, s.db)
    : s \in consultarProgresoVariable(rq.id, d) }

actualizarObservacionSesionController(rq, d) ==
  { IF s.threw THEN Next_(s.error, s.log, s.db)
    ELSE Sent(Res(200, s.val[1].message, s.val[1].data, FALSE), s.log, s.db)
    : s \in actualizarObservacionSesion(rq.id, rq.body, d) }

modificarEntrenamientoCognitivoController(rq, d) ==
  { IF s.threw THEN Next_(s.error, s.log, s.db)
    ELSE Sent(sendSuccess(200, s.val[1].mensaje,
                          <<[entrenamientoId |-> s.val[1].entrenamientocognitivoid]>>),
              s.log, s.db)
    : s \in modificarEntrenamientoCognitivo(rq.id, rq.body, d) }

finalizarSesionController(rq, d) ==
  { IF s.threw THEN Next_(s.error, s.log, s.db)
    ELSE Sent(Res(200, s.val[1].mensaje, s.val[1].data, FALSE), s.log, s.db)
    : s \in finalizarSesion(rq.id, rq.body, d) }

\* controllers/sesion.controller.js
crearSesion(rq, d) ==
  { IF s.threw THEN Next_(s.error, s.log, s.db)
    ELSE Sent(Res(201, s.val[1].mensaje, s.val[1].data, FALSE), s.log, s.db)
    : s \in crearNuevaSesion(rq.body, d) }

----------------------------------------------------------------------------
(* Students: registration, lookup, gender *)

MsgEstudianteRegistrado == <<"Estudiante", "registrado", "exitosamente", ".">>

\* CC.registrarestudianteuft($1 .. $8): the first student registered gets
\* the id u9; later ones are not addressed by any request of the model
registrarestudianteuft(d) ==
  { IF "u9" \in d.estudiantes
    THEN Rows(<<[estudianteid |-> "u10", mensaje |-> MsgEstudianteRegistrado]>>, "ok", d)
    ELSE Rows(<<[estudianteid |-> "u9", mensaje |-> MsgEstudianteRegistrado]>>, "ok",
              [d EXCEPT !.estudiantes = @ \cup {"u9"}]),
    Rows(<<[estudianteid |-> "",
            mensaje |-> <<"Error", ":", "llave", "duplicada", "viola", "restricción", "de",
                          "unicidad", "(", "correo", ")">>]>>, "duplicado", d),
    Rows(<<[estudianteid |-> "",
            mensaje |-> <<"Error", ":", "llave", "duplicada", "viola", "restricción", "de",
                          "unicidad", "(", "numerodocumento", ")">>]>>, "duplicado", d),
    Rows(<<[estudianteid |-> "",
            mensaje |-> <<"Ya", "existe", "un", "estudiante", "con", "ese", "correo", ".">>]>>,
         "duplicado", d),
    Rows(<<[estudianteid |-> "", mensaje |-> MsgProgramaNoExiste]>>, "dato_invalido", d),
    Rows(<<[estudianteid |-> "", mensaje |-> NoMsg]>>, "dato_invalido", d),
    Rows(<<>>, "sin_fila", d),
    Raise("23505", <<"llave", "duplicada", "viola", "restricción", "de", "unicidad">>, "duplicado", d),
    Raise("P0001", MsgProgramaNoExiste, "dato_invalido", d),
    ConnectionLost("ok", d) }

\* cc.obtenerinformacioncompletaestudianteufs($1, $2)
obtenerinformacioncompletaestudianteufs(numeroDoc, d) ==
  IF numeroDoc \in d.estudiantes
  THEN { Rows(<<[numeroDocumento |-> numeroDoc]>>, "existe", d), ConnectionLost("existe", d) }
  ELSE { Rows(<<>>, "no_existe", d), ConnectionLost("no_existe", d) }

\* CC.ActualizarGeneroEstudianteUFT($1, $2)
ActualizarGeneroEstudianteUFT(estudianteId, d) ==
  IF ~IsUUID(estudianteId) THEN {InvalidUUID(d)}
  ELSE IF estudianteId \notin d.estudiantes THEN
    { Rows(<<[estudianteid |-> "", generoactualizadoid |-> "",
              mensaje |-> MsgEstudianteNoExiste]>>, "no_existe", d),
      Rows(<<[estudianteid |-> "", generoactualizadoid |-> "", mensaje |-> NoMsg]>>, "no_existe", d),
      Rows(<<>>, "no_existe", d),
      Raise("P0001", MsgEstudianteNoExiste, "no_existe", d),
      ConnectionLost("no_existe", d) }
  ELSE
    { Rows(<<[estudianteid |-> estudianteId, generoactualizadoid |-> "g1",
              mensaje |-> <<"Género", "actualizado", ".">>]>>, "ok", d),
      Rows(<<[estudianteid |-> estudianteId, generoactualizadoid |-> "",
              mensaje |-> <<"No", "se", "requiere", "actualización", ".">>]>>, "sin_cambio", d),
      Rows(<<[estudianteid |-> estudianteId, generoactualizadoid |-> "",
              mensaje |-> <<"Género", "no", "encontrado", ".">>]>>, "genero_no_existe", d),
      Rows(<<[estudianteid |-> "", generoactualizadoid |-> "",
              mensaje |-> <<"Género", "no", "encontrado", ".">>]>>, "genero_no_existe", d),
      Rows(<<>>, "genero_no_existe", d),
      ConnectionLost("ok", d) }

\* models/estudiante.model.js
registrarEstudianteDB(d) ==
  { LET log == <<Call("model", "registrarEstudianteDB"), PoolCall("registrarestudianteuft", o)>>
    IN IF o.kind = "error" THEN Throws(o.error, log, o.db)
       ELSE IF Len(o.rows) > 0
       THEN Returns(<<[estudianteId |-> o.rows[1].estudianteid, mensaje |-> o.rows[1].mensaje]>>,
                    log, o.db)
       ELSE Throws(E(0, "", MsgSinResultado), log, o.db)
    : o \in registrarestudianteuft(d) }

obtenerInformacionCompleta(numeroDoc, d) ==
  { LET log == <<Call("model", "obtenerInformacionCompleta"),
                 PoolCall("obtenerinformacioncompletaestudianteufs", o)>>
    IN IF o.kind = "error" THEN Throws(o.error, log, o.db) ELSE Returns(o.rows, log, o.db)
    : o \in obtenerinformacioncompletaestudianteufs(numeroDoc, d) }

actualizarGenero_model(estudianteId, d) ==
  { LET log == <<Call("model", "actualizarGenero"), PoolCall("ActualizarGeneroEstudianteUFT", o)>>
    IN IF o.kind = "error" THEN Throws(o.error, log, o.db)
       ELSE Returns(FirstRow(o.rows), log, o.db)
    : o \in ActualizarGeneroEstudianteUFT(estudianteId, d) }

\* services/estudiante.service.js
registrarEstudiante(body, d) ==
  LET svc == <<Call("service", "registrarEstudiante")>>
      generic == <<"Ocurrió", "un", "error", "inesperado", "en", "el", "servidor", ".">>
  IN IF body = "incompleto"
     THEN { Thr(throwClientError(<<"La", "sigla", "del", "tipo", "de", "documento", "es",
                                   "requerida", ".">>, 400), svc, d) }
     ELSE { LET log == svc \o m.log
                mensaje == m.val[1].mensaje
                lowerCaseMessage == toLowerCase(mensaje)
            IN IF m.threw THEN Thr(Catch500(m.error, generic), log, m.db)
               ELSE IF mensaje # NoMsg /\ Includes(lowerCaseMessage, <<"exitosamente">>)
               THEN Ret(<<Resultado(TRUE, mensaje, 0,
                                    <<[id |-> m.val[1].estudianteId, message |-> mensaje]>>)>>,
                        log, m.db)
               ELSE IF \/ Includes(lowerCaseMessage, <<"unicidad">>)
                       \/ Includes(lowerCaseMessage, <<"violates", "unique", "constraint">>)
               THEN Thr(Catch500(throwClientError(
                          IF Includes(lowerCaseMessage, <<"correo">>) THEN MsgCorreoYaRegistrado
                          ELSE IF Includes(lowerCaseMessage, <<"numerodocumento">>)
                          THEN <<"El", "número", "de", "documento", "ingresado", "ya", "está",
                                 "registrado", ".">>
                          ELSE <<"El", "valor", "de", "un", "campo", "único", "ya", "está",
                                 "registrado", ".">>, 409), generic), log, m.db)
               ELSE Thr(Catch500(throwClientError(
                          OrMsg(mensaje, <<"La", "operación", "en", "la", "base", "de", "datos",
                                           "no", "se", "completó", "correctamente", ".">>), 400),
                          generic), log, m.db)
            : m \in registrarEstudianteDB(d) }

obtenerEstudiantePorDocumento(numeroDoc, d) ==
  LET generic == <<"Ocurrió", "un", "error", "inesperado", "en", "el", "servidor", "al",
                   "buscar", "el", "estudiante", ".">>
  IN { LET log == <<Call("service", "obtenerEstudiantePorDocumento")>> \o m.log
       IN IF m.threw THEN Thr(Catch500(m.error, generic), log, m.db)
          ELSE IF Len(m.val) = 0
          THEN Thr(Catch500(throwClientError(MsgEstudianteNoExiste, 404), generic), log, m.db)
          ELSE Ret(<<m.val[1]>>, log, m.db)
       : m \in obtenerInformacionCompleta(numeroDoc, d) }

\* the catch block of actualizarGenero: an error without a status is
\* replaced by a new Error, which has none either
CatchActualizarGenero(error) ==
  IF error.statusCode # 0 THEN error
  ELSE E(0, "", <<"Error", "en", "el", "servicio", "al", "actualiza", "r", "género", ":">>
                \o error.message)

actualizarGenero_service(estudianteId, d) ==
  { LET log == <<Call("service", "actualizarGenero")>> \o m.log
    IN IF m.threw THEN Thr(CatchActualizarGenero(m.error), log, m.db)
       ELSE IF m.val = <<>>
       THEN \* resultadoDB.mensaje of undefined: a TypeError
            Thr(CatchActualizarGenero(
                  E(0, "", <<"Cannot", "read", "properties", "of", "undefined">>)), log, m.db)
       ELSE IF m.val[1].estudianteid = ""
       THEN Thr(CatchActualizarGenero(throwClientError(
                  OrMsg(m.val[1].mensaje,
                        <<"Estudiante", "o", "género", "no", "encontrado", ".">>), 404)), log, m.db)
       ELSE IF Includes(m.val[1].mensaje, <<"No", "se", "requiere", "actualización">>)
       THEN Ret(m.val, log, m.db)
       ELSE IF m.val[1].generoactualizadoid = ""
       THEN Thr(CatchActualizarGenero(throwClientError(
                  OrMsg(m.val[1].mensaje,
                        <<"Ocurrió", "un", "error", "en", "la", "base", "de", "datos", ".">>), 400)),
                log, m.db)
       ELSE Ret(m.val, log, m.db)
    : m \in actualizarGenero_model(estudianteId, d) }

\* controllers/estudiante.controller.js
registrarNuevoEstudianteController(rq, d) ==
  { IF s.threw THEN Next_(s.error, s.log, s.db)
    ELSE Sent(sendSuccess(201, OrMsg(s.val[1].message, MsgEstudianteRegistrado), s.val[1].data),
              s.log, s.db)
    : s \in registrarEstudiante(rq.body, d) }

obtenerEstudianteController(rq, d) ==
  { IF s.threw THEN Next_(s.error, s.log, s.db)
    ELSE Sent(sendSuccess(200, <<"Estudiante", "encontrado", "exitosamente", ".">>, s.val),
              s.log, s.db)
    : s \in obtenerEstudiantePorDocumento(rq.id, d) }

actualizarGeneroEstudiante(rq, d) ==
  { IF s.threw THEN Next_(s.error, s.log, s.db)
    ELSE Sent(sendSuccess(200, s.val[1].mensaje, s.val), s.log, s.db)
    : s \in actualizarGenero_service(rq.id, d) }

----------------------------------------------------------------------------
(* Id of a cognitive variable by name *)

\* SELECT id FROM CC.variablecognitiva WHERE nombre = $1
VariableCognitivaPorNombre(nombre, d) ==
  IF nombre \in Existentes
  THEN { Rows(<<[id |-> nombre]>>, "existe", d), ConnectionLost("existe", d) }
  ELSE { Rows(<<>>, "no_existe", d), ConnectionLost("no_existe", d) }

\* models/variablesCognitivas.model.js
obtenerIdVariableCognitivaPorNombre_model(nombre, d) ==
  { LET log == <<Call("model", "obtenerIdVariableCognitivaPorNombre"),
                 PoolCall("variablecognitiva", o)>>
    IN IF o.kind = "error" THEN Throws(o.error, log, o.db)
       ELSE Returns(FirstRow(o.rows), log, o.db)
    : o \in VariableCognitivaPorNombre(nombre, d) }

\* services/variablesCognitivas.service.js
obtenerIdVariableCognitivaPorNombre_service(nombre, d) ==
  LET svc == <<Call("service", "obtenerIdVariableCognitivaPorNombre")>>
  IN IF nombre = ""
     THEN { Thr(E(400, "", <<"El", "nombre", "de", "la", "variable", "cognitiva", "es",
                             "requerido", ".">>), svc, d) }
     ELSE { LET log == svc \o m.log
            IN IF m.threw THEN Thr(Default500(m.error), log, m.db)
               ELSE IF m.val = <<>> \/ m.val[1].id = ""
               THEN Thr(Default500(E(404, "", <<"Variable", "cognitiva", "no", "encontrada", ".">>)),
                        log, m.db)
               ELSE Ret(m.val, log, m.db)
            : m \in obtenerIdVariableCognitivaPorNombre_model(nombre, d) }

\* controllers/variablesCognitivas.controller.js
obtenerIdVariableCognitivaPorNombre(rq, d) ==
  { IF s.threw
    THEN Sent(sendError(OrCode(s.error.statusCode, 500),
                        OrMsg(s.error.message,
                              <<"Error", "interno", "del", "servidor", "al", "obtener", "el",
                                "ID", "de", "la", "variable", "cognitiva", ".">>)), s.log, s.db)
    ELSE IF s.val # <<>> /\ s.val[1].id # ""
    THEN Sent(sendSuccess(200, <<"ID", "de", "la", "variable", "cognitiva", "obtenido", "con",
                                 "éxito", ".">>, s.val), s.log, s.db)
    ELSE Sent(sendError(404, <<"No", "se", "encontró", "una", "variable", "cognitiva", "con",
                               "el", "nombre", ".">>), s.log, s.db)
    : s \in obtenerIdVariableCognitivaPorNombre_service(rq.id, d) }

----------------------------------------------------------------------------
(* Login and the two catalogue routers whose controllers, services and    *)
(* data access are outside the files at hand: modelled from the route     *)
(* documentation and from the service tests (tipoDocumento.service.test). *)

\* the lookup of the user who logs in
BuscarUsuario(d) ==
  { Rows(<<[id |-> "t1"]>>, "existe", d),
    Rows(<<>>, "no_existe", d),
    ConnectionLost("existe", d) }

buscarUsuario(fn, d) ==
  { LET log == <<Call("model", fn), PoolCall(fn, o)>>
    IN IF o.kind = "error" THEN Throws(o.error, log, o.db)
       ELSE Returns(FirstRow(o.rows), log, o.db)
    : o \in BuscarUsuario(d) }

\* the login service: 400 without the document, 401 for an unknown user,
\* otherwise a token
login_service(fn, body, d) ==
  IF body = "incompleto"
  THEN { Thr(E(400, "", <<"El", "número", "de", "documento", "es", "requerido", ".">>),
             <<Call("service", fn)>>, d) }
  ELSE { LET log == <<Call("service", fn)>> \o m.log
         IN IF m.threw THEN Thr(Default500(m.error), log, m.db)
            ELSE IF m.val = <<>>
            THEN Thr(E(401, "", <<"Credenciales", "inválidas", ".">>), log, m.db)
            ELSE Ret(<<[token |-> "jwt", usuario |-> m.val[1].id]>>, log, m.db)
         : m \in buscarUsuario(fn, d) }

loginAdmin(rq, d) ==
  { IF s.threw THEN Next_(s.error, s.log, s.db)
    ELSE Sent(Res(200, <<"Inicio", "de", "sesión", "exitoso", ".">>, s.val, FALSE), s.log, s.db)
    : s \in login_service("loginAdmin", rq.body, d) }

loginEntrenador(rq, d) ==
  { IF s.threw THEN Next_(s.error, s.log, s.db)
    ELSE Sent(Res(200, <<"Inicio", "de", "sesión", "exitoso", ".">>, s.val, FALSE), s.log, s.db)
    : s \in login_service("loginEntrenador", rq.body, d) }

\* models/tipoDocumento.model.js and models/facultad.model.js
obtenerTodos_tipoDocumento(d) ==
  { LET log == <<Call("model", "tipoDocumento.obtenerTodos"), PoolCall("tipodocumento", o)>>
    IN IF o.kind = "error" THEN Throws(o.error, log, o.db) ELSE Returns(o.rows, log, o.db)
    : o \in Vista(d) }

obtenerTodas_facultad(d) ==
  { LET log == <<Call("model", "facultad.obtenerTodas"), PoolCall("facultad", o)>>
    IN IF o.kind = "error" THEN Throws(o.error, log, o.db) ELSE Returns(o.rows, log, o.db)
    : o \in Vista(d) }

\* services/tipoDocumento.service.js and services/facultad.service.js
listarTiposDocumento(d) ==
  { LET log == <<Call("service", "listarTiposDocumento")>> \o m.log
    IN IF m.threw THEN Thr(Default500(m.error), log, m.db)
       ELSE Ret(<<Resultado(TRUE, NoMsg, 0, m.val)>>, log, m.db)
    : m \in obtenerTodos_tipoDocumento(d) }

listarFacultades(d) ==
  { LET log == <<Call("service", "listarFacultades")>> \o m.log
    IN IF m.threw THEN Thr(Default500(m.error), log, m.db)
       ELSE Ret(<<Resultado(TRUE, NoMsg, 0, m.val)>>, log, m.db)
    : m \in obtenerTodas_facultad(d) }

\* controllers/tipoDocumento.controller.js and controllers/facultad.controller.js
obtenerTiposDocumento(rq, d) ==
  { IF s.threw THEN Next_(s.error, s.log, s.db)
    ELSE Sent(Res(200, s.val[1].message, s.val[1].data, FALSE), s.log, s.db)
    : s \in listarTiposDocumento(d) }

obtenerFacultades(rq, d) ==
  { IF s.threw THEN Next_(s.error, s.log, s.db)
    ELSE Sent(Res(200, s.val[1].message, s.val[1].data, FALSE), s.log, s.db)
    : s \in listarFacultades(d) }

----------------------------------------------------------------------------
(* Dispatch of the controller stage of a route *)

Run(c, rq, d) ==
  CASE c = "iniciarSesion" -> iniciarSesion(rq, d)
    [] c = "finalizarAsignacionVariableController" -> finalizarAsignacionVariableController(rq, d)
    [] c = "obtenerEstudiantesPorFacultadController" -> obtenerEstudiantesPorFacultadController(rq, d)
    [] c = "modificarEstudianteController" -> modificarEstudianteController(rq, d)
    [] c = "obtenerListaEntrenamientosAdmin" -> obtenerListaEntrenamientosAdmin(rq, d)
    [] c = "obtenerDetalleInformeAdmin" -> obtenerDetalleInformeAdmin(rq, d)
    [] c = "obtenerListaEntrenamientosEntrenador" -> obtenerListaEntrenamientosEntrenador(rq, d)
    [] c = "abandonarVariableCognitiva" -> abandonarVariableCognitiva(rq, d)
    [] c = "reactivarVariableCognitiva" -> reactivarVariableCognitiva(rq, d)
    [] c = "crearNuevoEntrenamientoCognitivoController" ->
         crearNuevoEntrenamientoCognitivoController(rq, d)
    [] c = "registrarEntrenador" -> registrarEntrenador(rq, d)
    [] c = "listarTodosLosEntrenadores" -> listarTodosLosEntrenadores(rq, d)
    [] c = "actualizarInformacionEntrenador" -> actualizarInformacionEntrenador(rq, d)
    [] c = "desactivarEntrenador" -> desactivarEntrenador(rq, d)
    [] c = "obtenerFacultadesPorEmailController" -> obtenerFacultadesPorEmailController(rq, d)
    [] c = "obtenerDatosPorCorreoController" -> obtenerDatosPorCorreoController(rq, d)
    [] c = "crearEntrenadorEntrenamientoController" -> crearEntrenadorEntrenamientoController(rq, d)
    [] c = "obtenerGenerosController" -> obtenerGenerosController(rq, d)
    [] c = "obtenerTiposDocumentoController" -> obtenerTiposDocumentoController(rq, d)
    [] c = "obtenerProgramasController" -> obtenerProgramasController(rq, d)
    [] c = "obtenerTiposVariablesCognitivasController" -> obtenerTiposVariablesCognitivasController(rq, d)
    [] c = "obtenerIdEstudiantePorDocumentoController" -> obtenerIdEstudiantePorDocumentoController(rq, d)
    [] c = "obtenerEntrenamientoEstudiantePorDocumentoController" -> obtenerEntrenamientoEstudiantePorDocumentoController(rq, d)
    [] c = "registrarEntrenamientoAsignacionController" -> registrarEntrenamientoAsignacionController(rq, d)
    [] c = "obtenerProgresoVariableController" -> obtenerProgresoVariableController(rq, d)
    [] c = "actualizarObservacionSesionController" -> actualizarObservacionSesionController(rq, d)
    [] c = "modificarEntrenamientoCognitivoController" -> modificarEntrenamientoCognitivoController(rq, d)
    [] c = "finalizarSesionController" -> finalizarSesionController(rq, d)
    [] c = "crearSesion" -> crearSesion(rq, d)
    [] c = "registrarNuevoEstudianteController" -> registrarNuevoEstudianteController(rq, d)
    [] c = "obtenerEstudianteController" -> obtenerEstudianteController(rq, d)
    [] c = "actualizarGeneroEstudiante" -> actualizarGeneroEstudiante(rq, d)
    [] c = "obtenerIdVariableCognitivaPorNombre" -> obtenerIdVariableCognitivaPorNombre(rq, d)
    [] c = "loginAdmin" -> loginAdmin(rq, d)
    [] c = "loginEntrenador" -> loginEntrenador(rq, d)
    [] c = "obtenerTiposDocumento" -> obtenerTiposDocumento(rq, d)
    [] c = "obtenerFacultades" -> obtenerFacultades(rq, d)

----------------------------------------------------------------------------
(* Middlewares *)

NoUser == [id |-> "", rol |-> ""]

\* verificarToken: a valid token attaches its user to the request and hands
\* the request on; anything else is answered 401
verificarToken(rq) ==
  IF rq.tokenValido
  THEN [pass |-> TRUE, req |-> [rq EXCEPT !.user = [id |-> rq.userId, rol |-> rq.rol]],
        res |-> NoRes]
  ELSE [pass |-> FALSE, req |-> rq,
        res |-> Res(401, <<"No", "autorizado">>, <<>>, FALSE)]

\* isAdmin / isEntrenador: the user's role must be the one required
verificarRol(rol, rq) ==
  IF rq.user.rol = rol
  THEN [pass |-> TRUE, req |-> rq, res |-> NoRes]
  ELSE [pass |-> FALSE, req |-> rq,
        res |-> Res(403, <<"Acceso", "prohibido">>, <<>>, FALSE)]

\* validarParametroUUID(name): records an error for a malformed parameter
validarParametroUUID(rq) ==
  [pass |-> TRUE, req |-> [rq EXCEPT !.errores = @ \/ ~IsUUID(rq.id)], res |-> NoRes]

\* body validators: record an error for a body that misses required fields
validaciones(rq) ==
  [pass |-> TRUE, req |-> [rq EXCEPT !.errores = @ \/ rq.body = "incompleto"], res |-> NoRes]

\* manejarResultadosValidacion: answers 400 when errors were recorded
manejarResultadosValidacion(rq) ==
  IF rq.errores
  THEN [pass |-> FALSE, req |-> rq,
        res |-> Res(400, <<"Errores", "de", "validación">>, <<>>, FALSE)]
  ELSE [pass |-> TRUE, req |-> rq, res |-> NoRes]

Middleware(stage, rq) ==
  CASE stage = VT    -> verificarToken(rq)
    [] stage = ADM   -> verificarRol("admin", rq)
    [] stage = ENT   -> verificarRol("entrenador", rq)
    [] stage = VUUID -> validarParametroUUID(rq)
    [] stage = VBODY -> validaciones(rq)
    [] stage = MRV   -> manejarResultadosValidacion(rq)

----------------------------------------------------------------------------
(* The global error handler of the application *)

\* an error handler that sends the stack in development whatever the status
errorHandler_stackSiempre(e, env) ==
  LET statusCode == OrCode(e.statusCode, 500)
      esErrorDeCliente == statusCode >= 400 /\ statusCode < 500
  IN Res(statusCode,
         OrMsg(e.message,
               IF esErrorDeCliente THEN <<"Error", "en", "la", "petición.">>
               ELSE <<"Error", "interno", "del", "servidor.">>),
         <<>>,
         env = "development")

errorHandler(e, env) ==
  LET statusCode == OrCode(e.statusCode, 500)
      esErrorDeCliente == statusCode >= 400 /\ statusCode < 500
  IN Res(statusCode,
         OrMsg(e.message,
               IF esErrorDeCliente THEN <<"Error", "en", "la", "petición.">>
               ELSE <<"Error", "interno", "del", "servidor.">>),
         <<>>,
         env = "development" /\ ~esErrorDeCliente)

----------------------------------------------------------------------------
(* State machine *)

InitDb ==
  [sesiones     |-> [i \in {"u1", "u2"} |-> IF i = "u1" THEN "Por Iniciar" ELSE "Finalizado"],
   asignaciones |-> [i \in {"u1", "u2"} |-> IF i = "u1" THEN "En Progreso" ELSE "Finalizado"],
   facultades   |-> [i \in {"u1", "u2"} |->
                       IF i = "u1" THEN <<[nombre_estudiante |-> "Ana", facultad |-> "u1"]>> ELSE <<>>],
   estudiantes  |-> {"u1", "u2"},
   entrenamientos |-> [i \in {"u1", "u2"} |-> IF i = "u1" THEN "t1" ELSE "t2"]]

NoReq ==
  [tokenValido |-> FALSE, rol |-> "", userId |-> "", id |-> "", body |-> "",
   user |-> NoUser, errores |-> FALSE]

Requests ==
  { [tokenValido |-> t, rol |-> r, userId |-> u, id |-> i, body |-> b,
     user |-> NoUser, errores |-> FALSE]
    : t \in BOOLEAN, r \in Roles, u \in UserIds, i \in Ids, b \in Bodies }

Init ==
  /\ pc = "idle"
  /\ route = 0
  /\ idx = 0
  /\ req = NoReq
  /\ trace = <<>>
  /\ calls = <<>>
  /\ err = NoError
  /\ res = NoRes
  /\ db = InitDb
  /\ served = 0
  /\ nodeEnv \in {"development", "production"}

\* a request arrives and is matched to its route
Receive ==
  /\ pc = "idle"
  /\ served < MaxRequests
  /\ \E r \in RouteIds, rq \in Requests :
       /\ route' = r
       /\ req' = rq
  /\ pc' = "chain"
  /\ idx' = 1
  /\ trace' = <<>>
  /\ calls' = <<>>
  /\ err' = NoError
  /\ res' = NoRes
  /\ UNCHANGED <<db, served, nodeEnv>>

Stage == RouteOf(route).chain[idx]

\* a middleware of the chain runs: it hands the request to the next stage
\* or answers it
RunMiddleware ==
  /\ pc = "chain"
  /\ Stage # CTRL
  /\ LET m == Middleware(Stage, req)
     IN /\ req' = m.req
        /\ trace' = Append(trace, Stage)
        /\ IF m.pass
           THEN /\ idx' = idx + 1
                /\ pc' = "chain"
                /\ UNCHANGED <<res, served>>
           ELSE /\ res' = m.res
                /\ pc' = "done"
                /\ served' = served + 1
                /\ UNCHANGED idx
  /\ UNCHANGED <<route, calls, err, db, nodeEnv>>

\* the controller of the route runs, with every call it makes
RunController ==
  /\ pc = "chain"
  /\ Stage = CTRL
  /\ \E r \in Run(RouteOf(route).ctrl, req, db) :
       /\ calls' = r.log
       /\ db' = r.db
       /\ trace' = Append(trace, CTRL)
       /\ IF r.kind = "res"
          THEN /\ res' = r.res
               /\ pc' = "done"
               /\ served' = served + 1
               /\ UNCHANGED err
          ELSE /\ err' = r.error
               /\ pc' = "error"
               /\ UNCHANGED <<res, served>>
  /\ UNCHANGED <<route, idx, req, nodeEnv>>

\* next(err) reached the global error handler
RunErrorHandler ==
  /\ pc = "error"
  /\ res' = errorHandler(err, nodeEnv)
  /\ trace' = Append(trace, "errorHandler")
  /\ pc' = "done"
  /\ served' = served + 1
  /\ UNCHANGED <<route, idx, req, calls, err, db, nodeEnv>>

\* the response has gone out: the request and response objects of the
\* exchange are dropped, the server waits for the next request
Close ==
  /\ pc = "done"
  /\ pc' = "idle"
  /\ route' = 0
  /\ idx' = 0
  /\ req' = NoReq
  /\ trace' = <<>>
  /\ calls' = <<>>
  /\ err' = NoError
  /\ res' = NoRes
  /\ UNCHANGED <<db, served, nodeEnv>>

Next == Receive \/ RunMiddleware \/ RunController \/ RunErrorHandler \/ Close

Spec == Init /\ [][Next]_vars

----------------------------------------------------------------------------
(* The session / assignment workflow services called directly, as their   *)
(* unit tests call them: any argument can be missing or malformed          *)

WorkflowServices ==
  {"crearNuevaSesion", "iniciarSesion", "finalizarSesion", "finalizarAsignacionVariable"}

\* arguments of a direct call: an id (possibly missing) and a body
ServiceInputs ==
  { [NoReq EXCEPT !.id = i, !.body = b] : i \in Ids \cup {""}, b \in Bodies }

ApplyService(fn, rq, d) ==
  CASE fn = "crearNuevaSesion" -> crearNuevaSesion(rq.body, d)
    [] fn = "iniciarSesion" -> iniciarSesion_service(rq.id, d)
    [] fn = "finalizarSesion" -> finalizarSesion(rq.id, rq.body, d)
    [] fn = "finalizarAsignacionVariable" -> finalizarAsignacionVariable(rq.id, d)

\* a service is called and runs to its end: it resolves with a value or
\* rejects with an error
InvokeService ==
  /\ pc = "idle"
  /\ served < MaxRequests
  /\ \E fn \in WorkflowServices, rq \in ServiceInputs :
       \E r \in ApplyService(fn, rq, db) :
         /\ req' = rq
         /\ trace' = <<fn>>
         /\ calls' = r.log
         /\ db' = r.db
         /\ err' = r.error
         /\ res' = IF r.threw THEN NoRes ELSE Res(0, NoMsg, r.val, FALSE)
         /\ pc' = IF r.threw THEN "rejected" ELSE "resolved"
  /\ served' = served + 1
  /\ UNCHANGED <<route, idx, nodeEnv>>

\* the caller has looked at the outcome
Settle ==
  /\ pc \in {"rejected", "resolved"}
  /\ pc' = "idle"
  /\ req' = NoReq
  /\ trace' = <<>>
  /\ calls' = <<>>
  /\ err' = NoError
  /\ res' = NoRes
  /\ UNCHANGED <<route, idx, db, served, nodeEnv>>

ListingServices == {"listarEntrenamientosParaAdmin", "consultarEntrenamientoPorDocumento"}

\* errors a mocked data-access function rejects with: with and without a
\* statusCode of their own
ErrorMocks ==
  { E(0, "", <<"Error", "genérico">>),
    E(500, "", <<"Error", "de", "BD">>),
    E(503, "", <<"Servicio", "no", "disponible">>) }

\* jest's mockRejectedValue on the data-access function fn
mockRejectedValue(fn, e, d) == Throws(e, <<Call("model", fn)>>, d)

DataAccessOf(fn) ==
  CASE fn = "listarEntrenamientosParaAdmin" -> "obtenerListaEntrenamientosAdmin"
    [] fn = "consultarEntrenamientoPorDocumento" -> "obtenerEntrenamientoCognitivoPorDocumento"

\* the outcomes of the data-access function of fn: the ones of the function
\* itself, and the rejections a test makes it have
DataAccessOutcomes(fn, d) ==
  (CASE fn = "listarEntrenamientosParaAdmin" -> obtenerListaEntrenamientosAdmin_model(d)
     [] fn = "consultarEntrenamientoPorDocumento" -> obtenerEntrenamientoCognitivoPorDocumento(d))
  \cup { mockRejectedValue(DataAccessOf(fn), e, d) : e \in ErrorMocks }

ApplyListing(fn, rq, ms, d) ==
  CASE fn = "listarEntrenamientosParaAdmin" -> listarEntrenamientosParaAdmin_sobre(ms)
    [] fn = "consultarEntrenamientoPorDocumento" ->
         consultarEntrenamientoPorDocumento_sobre(rq.body, ms, d)

\* a listing / query service is called and runs to its end
InvokeListing ==
  /\ pc = "idle"
  /\ served < MaxRequests
  /\ \E fn \in ListingServices, rq \in ServiceInputs :
       \E r \in ApplyListing(fn, rq, DataAccessOutcomes(fn, db), db) :
         /\ req' = rq
         /\ trace' = <<fn>>
         /\ calls' = r.log
         /\ db' = r.db
         /\ err' = r.error
         /\ res' = IF r.threw THEN NoRes ELSE Res(0, NoMsg, r.val, FALSE)
         /\ pc' = IF r.threw THEN "rejected" ELSE "resolved"
  /\ served' = served + 1
  /\ UNCHANGED <<route, idx, nodeEnv>>

NextServicio == InvokeService \/ InvokeListing \/ Settle

SpecServicio == Init /\ [][NextServicio]_vars

----------------------------------------------------------------------------
(* Vocabulary of the properties *)

\* the request in hand is for this endpoint
Serving(verb, path) ==
  /\ route # 0
  /\ RouteOf(route).verb = verb
  /\ RouteOf(route).path = path

\* the request in hand has been answered
Answered == pc = "done"

\* the controller of the route has run for the request in hand
ControllerRan == \E i \in 1..Len(trace) : trace[i] = CTRL

\* the statements sent to the pool for the request in hand
PoolCalls == SelectSeq(calls, LAMBDA c : c.capa = "pool")

\* the database answered a statement of the request in hand with this case
\* and reported it: a row came back, or a RAISE EXCEPTION
Reported(caso) ==
  \E i \in 1..Len(PoolCalls) :
    /\ PoolCalls[i].caso = caso
    /\ \/ PoolCalls[i].kind = "rows" /\ PoolCalls[i].nrows > 0
       \/ PoolCalls[i].code = "P0001"

\* the database answered a statement of the request in hand with rows
\* (possibly none) in this case
Answering(caso) ==
  \E i \in 1..Len(PoolCalls) :
    PoolCalls[i].caso = caso /\ PoolCalls[i].kind = "rows"

----------------------------------------------------------------------------
(* Properties *)

\* C3: GET /api/entrenadores/informes/{entrenamientoId} returns the report
\* only when the training belongs to the authenticated trainer; for a
\* training of another trainer the answer is 403 and carries no report data.
C3_InformeSoloDelEntrenador ==
  (/\ Answered
   /\ Serving("GET", "/api/entrenadores/informes/:entrenamientoId")
   /\ ControllerRan
   /\ req.id \in DOMAIN db.entrenamientos
   /\ db.entrenamientos[req.id] # req.user.id)
  => (res.status = 403 /\ res.data = <<>>)

\* C7: POST /api/sesiones/{idSesion}/iniciar answers 404 when the session
\* does not exist, and a controller answer of 400 means the session exists
\* but cannot be started.
C7_IniciarSesion404 ==
  (Answered /\ Serving("POST", "/api/sesiones/:idSesion/iniciar") /\ ControllerRan)
  => /\ Answering("no_existe") \/ Reported("no_existe") => res.status = 404
     /\ res.status = 400 => Answering("no_iniciable") \/ Reported("no_iniciable")

\* C8: PUT /api/entrenamientos-cognitivos/asignaciones/{idAsignacion}/finalizar
\* answers 404 when the assignment is not found and 400 when it exists but
\* cannot be finalized.
C8_FinalizarAsignacion404 ==
  (/\ Answered
   /\ Serving("PUT", "/api/entrenamientos-cognitivos/asignaciones/:idAsignacion/finalizar")
   /\ ControllerRan)
  => /\ Reported("no_existe") => res.status = 404
     /\ Reported("no_finalizable") => res.status = 400

\* C9: GET /api/entrenamientos-cognitivos/facultad/{facultadId}/estudiantes
\* answers 404 when the database returns no students for a well-formed
\* faculty id.
C9_FacultadSinEstudiantes404 ==
  (/\ Answered
   /\ Serving("GET", "/api/entrenamientos-cognitivos/facultad/:facultadId/estudiantes")
   /\ IsUUID(req.id)
   /\ Answering("sin_estudiantes"))
  => res.status = 404

\* C10: PUT /api/estudiantes/{siglaTipoDoc}/{numeroDoc} answers 404 when the
\* database reports that the student to modify does not exist.
C10_ModificarEstudiante404 ==
  (/\ Answered
   /\ Serving("PUT", "/api/estudiantes/:siglaTipoDoc/:numeroDoc")
   /\ Reported("no_existe"))
  => res.status = 404

----------------------------------------------------------------------------
(* Properties of the routing layer *)

\* the two endpoints that issue tokens
LoginPaths == {"/api/login/admin", "/api/login/entrenador"}

\* the request in hand is for an endpoint other than the two logins
NotLogin == route # 0 /\ RouteOf(route).path \notin LoginPaths

\* C1: on every route other than the two logins verificarToken is the first
\* middleware of the chain, and no controller runs and no service,
\* data-access or database call is made for a request whose token
\* verification did not pass.
C1_TokenPrimero ==
  /\ \A i \in RouteIds :
       RouteOf(i).path \notin LoginPaths => RouteOf(i).chain[1] = VT
  /\ NotLogin =>
       /\ trace # <<>> => trace[1] = VT
       /\ (ControllerRan \/ calls # <<>>) => (req.tokenValido /\ req.user # NoUser)

\* C1 witness: a request without a valid token to a guarded endpoint was
\* answered 401 by verificarToken; nothing else ran and nothing was called.
C1_RechazadaSinToken ==
  /\ Answered
  /\ NotLogin
  /\ ~req.tokenValido
  /\ trace = <<VT>>
  /\ res.status = 401
  /\ calls = <<>>

\* C2 as stated: on every endpoint other than the two logins a role check
\* (isAdmin or isEntrenador) runs after token verification and before the
\* controller.
C2_RolEnTodas ==
  (NotLogin /\ ControllerRan)
  => (Len(trace) >= 3 /\ trace[1] = VT /\ trace[2] \in {ADM, ENT})

\* the endpoints that declare a role check, with the check they declare
RutasConRol ==
  { <<"POST",  "/api/admin/entrenadores", ADM>>,
    <<"GET",   "/api/admin/entrenadores", ADM>>,
    <<"PUT",   "/api/admin/entrenadores/:entrenadorID", ADM>>,
    <<"PUT",   "/api/admin/entrenadores/:entrenadorID/desactivar", ADM>>,
    <<"GET",   "/api/admin/informes/entrenamientos", ADM>>,
    <<"GET",   "/api/admin/informes/entrenamientos/:entrenamientoId", ADM>>,
    <<"GET",   "/api/entrenadores/informes", ENT>>,
    <<"GET",   "/api/entrenadores/informes/:entrenamientoId", ENT>>,
    <<"PATCH", "/api/estudiantes/:id/genero", ENT>>,
    <<"POST",  "/api/sesiones/crear", ENT>>,
    <<"POST",  "/api/sesiones/:idSesion/iniciar", ENT>>,
    <<"GET",   "/api/entrenamientos-cognitivos/progreso/:asignacionId", ENT>>,
    <<"PATCH", "/api/entrenamientos-cognitivos/estudiante/:siglaTipoDocEstudiante/:numeroDocEstudiante", ENT>>,
    <<"PUT",   "/api/entrenamientos-cognitivos/sesiones/:idSesion/observacion", ENT>>,
    <<"PUT",   "/api/entrenamientos-cognitivos/sesiones/:idSesion/finalizar", ENT>>,
    <<"PUT",   "/api/entrenamientos-cognitivos/asignaciones/:idAsignacion/finalizar", ENT>> }

\* the role checks declared for the endpoint of the request in hand
RolDeclarado ==
  { g[3] : g \in { h \in RutasConRol :
                     h[1] = RouteOf(route).verb /\ h[2] = RouteOf(route).path } }

\* C2 amended: on the endpoints that declare a role check (every /api/admin
\* endpoint with isAdmin, the trainer endpoints of RutasConRol with
\* isEntrenador) that check runs right after token verification and before
\* the controller; on every other endpoint besides the two logins the
\* controller runs after token verification alone, with no role check.
C2_RolDondeSeDeclara ==
  (NotLogin /\ ControllerRan)
  => IF RolDeclarado # {}
     THEN /\ Len(trace) >= 3
          /\ trace[1] = VT
          /\ trace[2] \in RolDeclarado
          /\ \A i \in 3..Len(trace) : trace[i] \notin {ADM, ENT}
     ELSE /\ Len(trace) >= 2
          /\ SubSeq(trace, 1, 2) = <<VT, CTRL>>

\* C2 witness: an authenticated request of the wrong role to an endpoint
\* that declares a role check was answered 403 by the check, and the
\* controller did not run.
C2_RolRechazado ==
  /\ Answered
  /\ NotLogin
  /\ RolDeclarado # {}
  /\ req.tokenValido
  /\ Len(trace) = 2
  /\ trace[2] \in RolDeclarado
  /\ res.status = 403
  /\ ~ControllerRan

\* position of a stage in the fixed order
Rank(s) ==
  CASE s = VT -> 1
    [] s \in {ADM, ENT} -> 2
    [] s \in {VUUID, VBODY} -> 3
    [] s = MRV -> 4
    [] s = CTRL -> 5
    [] OTHER -> 6

\* C4: the stages of a chain run in the order token verification, role
\* check, input validators, validation-result collector, controller; and
\* when the controller has run, every stage of the route's chain ran before
\* it, each exactly once and in the order of the chain.
C4_OrdenFijo ==
  /\ \A i, j \in 1..Len(trace) :
       i < j => \/ Rank(trace[i]) < Rank(trace[j])
                \/ Rank(trace[i]) = 3 /\ Rank(trace[j]) = 3
  /\ ControllerRan =>
       /\ Len(trace) >= Len(RouteOf(route).chain)
       /\ SubSeq(trace, 1, Len(RouteOf(route).chain)) = RouteOf(route).chain

\* C4 witness: a request went through a chain that has every kind of stage
\* and was answered by its controller.
C4_CadenaCompleta ==
  /\ Answered
  /\ Len(trace) >= 6
  /\ SubSeq(trace, 1, 6) = <<VT, ENT, VUUID, VBODY, MRV, CTRL>>
  /\ res.status # 0

----------------------------------------------------------------------------
(* Properties of the layering *)

\* the service functions called for the request in hand
ServiceCalls == SelectSeq(calls, LAMBDA c : c.capa = "service")

\* C5: a controller that has handled a request called exactly one service
\* function, and called it before anything else (no data-access function is
\* called by the controller itself).
C5_UnServicioPorControlador ==
  (Answered /\ ControllerRan)
  => (Len(ServiceCalls) = 1 /\ calls[1].capa = "service")

\* the controllers whose data-access functions are part of the sources
EnFuente ==
  /\ route # 0
  /\ RouteOf(route).ctrl \notin
       {"loginAdmin", "loginEntrenador", "obtenerTiposDocumento", "obtenerFacultades"}

\* every statement of the request in hand was issued by the data-access
\* call logged just before it, and no data-access call issued two
UnaSentenciaPorLlamada ==
  \A i \in 1..Len(calls) :
    calls[i].capa = "pool" =>
      /\ i > 1
      /\ calls[i - 1].capa = "model"

\* a database error came out of the data-access function unchanged
ErrorRelanzado(m, p) ==
  p.kind = "error" => (m.kind = "throw" /\ m.error = p.error)

\* C6 as stated: every data-access call issues exactly one statement, and
\* then returns when the statement gave rows and throws the database error
\* when it gave an error.
C6_FilasOError ==
  EnFuente =>
    /\ UnaSentenciaPorLlamada
    /\ \A i \in 1..Len(calls) :
         calls[i].capa = "model" =>
           /\ i < Len(calls)
           /\ calls[i + 1].capa = "pool"
           /\ ErrorRelanzado(calls[i], calls[i + 1])
           /\ calls[i + 1].kind = "rows" => calls[i].kind = "return"

\* the data-access functions that throw an error of their own when the
\* statement returns no row
LanzanSinFilas ==
  { "crearEntrenamientoCognitivoDB", "registrarEntrenamientoAsignacionDB",
    "actualizarObservacionSesionDB", "modificarEntrenamientoCognitivoDB",
    "registrarEstudianteDB", "crearEntrenadorEntrenamiento" }

\* C6 amended: every data-access call issues exactly one statement and never
\* a second (obtenerEstudiantesPorFacultad issues none, and throws, when it
\* is given no faculty id); a database error is rethrown unchanged; when the
\* statement gives rows the function returns, except that the functions of
\* LanzanSinFilas throw an error of their own when no row came back.
C6_UnaSentenciaYRelanza ==
  EnFuente =>
    /\ UnaSentenciaPorLlamada
    /\ \A i \in 1..Len(calls) :
         calls[i].capa = "model" =>
           IF i < Len(calls) /\ calls[i + 1].capa = "pool"
           THEN /\ ErrorRelanzado(calls[i], calls[i + 1])
                /\ calls[i + 1].kind = "rows" =>
                     \/ calls[i].kind = "return"
                     \/ /\ calls[i].fn \in LanzanSinFilas
                        /\ calls[i + 1].nrows = 0
                        /\ calls[i].kind = "throw"
                        /\ calls[i].error.code = ""
           ELSE /\ calls[i].fn = "obtenerEstudiantesPorFacultad"
                /\ calls[i].kind = "throw"

\* C6 witness: the statement of one of the functions of LanzanSinFilas gave
\* no row and the function threw an error of its own.
C6_LanzaSinFilas ==
  \E i \in 1..Len(calls) :
    /\ i < Len(calls)
    /\ calls[i].capa = "model"
    /\ calls[i].fn \in LanzanSinFilas
    /\ calls[i].kind = "throw"
    /\ calls[i + 1].capa = "pool"
    /\ calls[i + 1].kind = "rows"
    /\ calls[i + 1].nrows = 0

----------------------------------------------------------------------------
(* Properties of the status decided from what the database returned *)

\* a statement was sent for the request in hand; the last one sent
HayStatement == PoolCalls # <<>>
Statement == PoolCalls[Len(PoolCalls)]

\* the statement succeeded and gave no row
SinFila == HayStatement /\ Statement.kind = "rows" /\ Statement.nrows = 0

\* the statement succeeded and gave at least one row; the first row
HayFila == HayStatement /\ Statement.kind = "rows" /\ Statement.nrows > 0
Fila == Statement.rows[1]

\* the statement raised an error
HayExcepcion == HayStatement /\ Statement.kind = "error"

\* C11: PATCH /api/estudiantes/{id}/genero answers 404 whenever the student
\* or the gender is not found, in particular when the statement gives no
\* row at all and when it gives a row without a student id.
C11_Genero404 ==
  (/\ Answered
   /\ Serving("PATCH", "/api/estudiantes/:id/genero")
   /\ ControllerRan
   /\ HayStatement
   /\ Statement.kind = "rows")
  => /\ SinFila => res.status = 404
     /\ (HayFila /\ Fila.estudianteid = "") => res.status = 404
     /\ Statement.caso \in {"no_existe", "genero_no_existe"} => res.status = 404

\* C12: GET /api/entrenadores/informes/{entrenamientoId} answers 404 when
\* the statement gives no rows for the training.
C12_InformeVacio404 ==
  (/\ Answered
   /\ Serving("GET", "/api/entrenadores/informes/:entrenamientoId")
   /\ ControllerRan
   /\ SinFila)
  => res.status = 404

\* the request in hand is served by modificarEntrenamientoCognitivo and
\* its service call has ended
ModificarEntrenamientoHecho ==
  /\ Serving("PATCH", "/api/entrenamientos-cognitivos/estudiante/:siglaTipoDocEstudiante/:numeroDocEstudiante")
  /\ ControllerRan

\* C13: when the database returns a row whose message contains 'no tiene un
\* entrenamiento', modificarEntrenamientoCognitivo rejects with status 404
\* and the database message; for any other returned message without the
\* success marker it rejects with status 400 and that message.
C13_ModificarEntrenamiento404o400 ==
  (ModificarEntrenamientoHecho /\ HayFila /\ Fila.mensaje # NoMsg)
  => LET m == toLowerCase(Fila.mensaje)
     IN /\ Includes(m, <<"no", "tiene", "un", "entrenamiento">>)
             => (err.statusCode = 404 /\ err.message = Fila.mensaje)
        /\ (/\ ~Includes(m, <<"no", "tiene", "un", "entrenamiento">>)
            /\ ~Includes(m, <<"exitosamente">>))
             => (err.statusCode = 400 /\ err.message = Fila.mensaje)

\* C13 witness: the database answered that the student has no training and
\* the request was answered 404 with that message.
C13_SinEntrenamiento404 ==
  /\ Answered
  /\ ModificarEntrenamientoHecho
  /\ HayFila
  /\ Includes(Fila.mensaje, <<"no", "tiene", "un", "entrenamiento">>)
  /\ res.status = 404
  /\ res.message = Fila.mensaje

\* the request in hand is served by finalizarSesion, called with a valid
\* UUID and object-valued metrics and level, and its service call has ended
FinalizarSesionHecho ==
  /\ Serving("PUT", "/api/entrenamientos-cognitivos/sesiones/:idSesion/finalizar")
  /\ ControllerRan
  /\ IsUUID(req.id)
  /\ req.body = "completo"

\* C14: when the row returned to finalizarSesion carries a message that
\* contains 'Error' or 'error' the service rejects with status 400 and that
\* message, and success is never reported for it; when the message contains
\* neither, the service resolves and the message is passed on unchanged.
C14_FinalizarSesionErrorEnMensaje ==
  (FinalizarSesionHecho /\ HayFila /\ Fila.mensaje # NoMsg)
  => IF Includes(Fila.mensaje, <<"Error">>) \/ Includes(Fila.mensaje, <<"error">>)
     THEN /\ err.statusCode = 400
          /\ err.message = Fila.mensaje
          /\ res.status \in {0, 400}
     ELSE /\ err = NoError
          /\ res.status = 200
          /\ res.message = Fila.mensaje

\* C14 witness: the database returned a message containing 'error' and the
\* request was answered 400 with that message.
C14_ErrorEnMensaje400 ==
  /\ Answered
  /\ FinalizarSesionHecho
  /\ HayFila
  /\ Includes(Fila.mensaje, <<"error">>)
  /\ res.status = 400
  /\ res.message = Fila.mensaje

\* the text x mentions the word w, in any case
Menciona(x, w) == x # <<>> /\ Includes(toLowerCase(x), <<w>>)

RegistrarEntrenadorHecho == Serving("POST", "/api/admin/entrenadores") /\ ControllerRan

\* C17: when the database rejects a trainer registration with the unique
\* violation code 23505, registrarEntrenador rejects with status 409, and
\* with the message 'El correo electrónico ingresado ya está registrado.'
\* when the message or the detail of the error mentions 'correo'.
C17_Duplicado409 ==
  (RegistrarEntrenadorHecho /\ HayExcepcion /\ Statement.code = "23505")
  => /\ err.statusCode = 409
     /\ (Menciona(Statement.error.message, "correo") \/ Menciona(Statement.error.detail, "correo"))
        => err.message = MsgCorreoYaRegistrado

\* C17 witness: the unique violation named the e-mail only in its detail, and
\* the request was answered 409 with the message about the e-mail.
C17_CorreoEnDetalle409 ==
  /\ Answered
  /\ RegistrarEntrenadorHecho
  /\ HayExcepcion
  /\ Statement.code = "23505"
  /\ ~Menciona(Statement.error.message, "correo")
  /\ Menciona(Statement.error.detail, "correo")
  /\ res.status = 409
  /\ res.message = MsgCorreoYaRegistrado

\* C18: POST /api/estudiantes responds 409 whenever the database reports
\* that the student already exists, through the message of the returned row
\* or through a unique-violation error.
C18_EstudianteDuplicado409 ==
  (Answered /\ Serving("POST", "/api/estudiantes") /\ ControllerRan
     /\ HayStatement /\ Statement.caso = "duplicado")
  => res.status = 409

FinalizarAsignacionHecho ==
  Serving("PUT", "/api/entrenamientos-cognitivos/asignaciones/:idAsignacion/finalizar")
  /\ ControllerRan

\* the fixed texts of the two services for an unexpected failure
TextosGenericos ==
  { <<"Ocurrió", "un", "error", "inesperado", "en", "el", "servidor", "al", "intentar",
      "modificar", "el", "entrenamiento", ".">>,
    <<"Ocurrió", "un", "error", "inesperado", "en", "el", "servidor", "al", "intentar",
      "finalizar", "la", "asignación", "de", "variable", ".">> }

\* C19: in modificarEntrenamientoCognitivo and finalizarAsignacionVariable an
\* exception of the database with code P0001 is rejected with status 400 and
\* the message of the database; any other exception is rejected with status
\* 500 and a fixed text, which is not the text of the exception.
C19_P0001Es400YElRestoEs500 ==
  ((ModificarEntrenamientoHecho \/ FinalizarAsignacionHecho) /\ HayExcepcion)
  => IF Statement.code = "P0001"
     THEN err.statusCode = 400 /\ err.message = Statement.error.message
     ELSE /\ err.statusCode = 500
          /\ err.message \in TextosGenericos
          /\ err.message # Statement.error.message

\* C19 witness: a statement of one of the two services failed with an
\* exception other than P0001 and the request was answered 500 with a text
\* that is not the one of the exception.
C19_FalloOcultoTras500 ==
  /\ Answered
  /\ ModificarEntrenamientoHecho \/ FinalizarAsignacionHecho
  /\ HayExcepcion
  /\ Statement.code # "P0001"
  /\ res.status = 500
  /\ res.message \in TextosGenericos
  /\ res.message # Statement.error.message

ModificarEstudianteHecho ==
  Serving("PUT", "/api/estudiantes/:siglaTipoDoc/:numeroDoc") /\ ControllerRan

\* the row in hand carries the success marker of the service that read it
ConMarcadorDeExito ==
  /\ Fila.mensaje # NoMsg
  /\ \/ ModificarEstudianteHecho
        /\ Includes(toLowerCase(Fila.mensaje), <<"procesada", "para", "actualización">>)
     \/ ModificarEntrenamientoHecho
        /\ Includes(toLowerCase(Fila.mensaje), <<"exitosamente">>)

\* C20: modificarEstudiante and modificarEntrenamientoCognitivo resolve only
\* for a row whose message has the success marker; every row without it, an
\* empty or missing message included, is rejected with a client error (4xx).
C20_SoloConMarcadorDeExito ==
  ((ModificarEstudianteHecho \/ ModificarEntrenamientoHecho) /\ HayFila /\ ~ConMarcadorDeExito)
  => err.statusCode \in 400..499

\* the response in hand was written by the global error handler
PorErrorHandler ==
  Answered /\ \E i \in 1..Len(trace) : trace[i] = "errorHandler"

\* C21: a response of the global error handler never carries the stack of
\* the error when its status is a client error (400 to 499), and carries it
\* for no status unless NODE_ENV is 'development'.
C21_StackSoloEnDesarrolloYNoCliente ==
  PorErrorHandler
  => /\ res.status \in 400..499 => ~res.stack
     /\ res.stack => nodeEnv = "development"

\* C21 witness: in development the global error handler answered a client
\* error, and the response carries no stack.
C21_ClienteEnDesarrolloSinStack ==
  /\ PorErrorHandler
  /\ nodeEnv = "development"
  /\ res.status \in 400..499
  /\ ~res.stack

\* the services that rejected while the request in hand was served
ServiciosRechazados ==
  SelectSeq(calls, LAMBDA c : c.capa = "service" /\ c.kind = "throw")

\* C22: whenever a service rejects with an error that carries statusCode s
\* (400, 404, 409 or 500), the response sent for the request has status s,
\* whether the controller forwarded the error or answered itself.
C22_StatusDelServicio ==
  Answered
  => \A i \in 1..Len(ServiciosRechazados) :
       ServiciosRechazados[i].error.statusCode \in {400, 404, 409, 500}
       => res.status = ServiciosRechazados[i].error.statusCode

\* C22 witness: the service of PATCH /api/variables-cognitivas/abandonar
\* rejected with 400, the controller answered itself, without the global
\* error handler, and the status of the response is 400.
C22_ControladorRespondeConElStatus ==
  /\ Answered
  /\ Serving("PATCH", "/api/variables-cognitivas/abandonar")
  /\ ServiciosRechazados # <<>>
  /\ ServiciosRechazados[1].error.statusCode = 400
  /\ ~PorErrorHandler
  /\ res.status = 400

----------------------------------------------------------------------------
(* Properties of the services called directly *)

\* the service called, once the call has ended
Called(fn) == pc \in {"rejected", "resolved"} /\ trace = <<fn>>

\* the arguments of the call in hand fail the validation of the service
EntradaInvalida ==
  \/ Called("crearNuevaSesion") /\ req.body = "incompleto"
  \/ Called("finalizarSesion") /\ (req.id = "" \/ ~IsUUID(req.id) \/ req.body = "incompleto")
  \/ Called("finalizarAsignacionVariable") /\ (req.id = "" \/ ~IsUUID(req.id))

\* C15: when the arguments of crearNuevaSesion, finalizarSesion or
\* finalizarAsignacionVariable fail the validation of the service, the
\* service rejects with status 400 and neither its data-access function nor
\* any statement is invoked for that call.
C15_ValidaAntesDeLaBD ==
  EntradaInvalida
  => /\ pc = "rejected"
     /\ err.statusCode = 400
     /\ Len(calls) = 1
     /\ calls[1].capa = "service"

\* C15 witness: finalizarAsignacionVariable was called with an id that is
\* not a UUID and rejected with 400 without reaching the database.
C15_IdInvalidoRechazado ==
  /\ Called("finalizarAsignacionVariable")
  /\ req.id = "no-uuid"
  /\ pc = "rejected"
  /\ err.statusCode = 400
  /\ PoolCalls = <<>>

\* the call of the data-access function made by the service in hand
ModelCall == SelectSeq(calls, LAMBDA c : c.capa = "model")

DataAccessRejected ==
  /\ \E fn \in ListingServices : Called(fn)
  /\ ModelCall # <<>>
  /\ ModelCall[1].kind = "throw"

====
